---- MODULE Spec2Model ----
(***************************************************************************)
(* alien-inbound: the concurrency core of the anti-aircraft game           *)
(* (src/src/game.c, threads.c, input.c, render.c) as a state machine.      *)
(*                                                                         *)
(* Tasks: the orchestrator ("main": thread_principal, then                 *)
(* finalizar_threads and game_cleanup, all on the process's first thread), *)
(* the input reader ("input"), the reloader ("art"), one ship task per     *)
(* successful pthread_create in criar_nave and one rocket task per         *)
(* successful pthread_create in tentar_disparar.                           *)
(*                                                                         *)
(* Granularity.  A critical section that takes one mutex, takes no other   *)
(* mutex inside and does not block inside is one step, enabled when that   *)
(* mutex is free.  Where the code takes a second mutex while it holds one  *)
(* (criar_nave, tentar_disparar, thread_artilheiro, render_game), or       *)
(* blocks (pthread_cond_wait, pthread_join), the outer acquisition is a    *)
(* step of its own and mutex[m] names the holder in between.  Lock-free    *)
(* reads of game_over and unlocked reads of entity fields are steps of     *)
(* their own.  Time is not modelled: a usleep may end at any moment, and   *)
(* a loop's usleep and the read of game_over at the loop head that follows *)
(* it are one step (the sleep touches no shared state).                    *)
(*                                                                         *)
(* render_game is modelled twice: section by section (RenderShips ..       *)
(* RenderPresent, in SpecSections), and as the single step RenderFrame (in *)
(* Spec), which takes the frame when every mutex is free.  The frame       *)
(* writes only the screen metrics and the hit markers, so the counters and *)
(* the tasks' lifecycles do not depend on where a frame is interleaved;    *)
(* lock ordering does, and is studied in SpecSections.                     *)
(*                                                                         *)
(* A run (its difficulty row, terminal size, the keys its user presses,    *)
(* the number of shots, whether malloc and pthread_create may fail) is     *)
(* chosen in Init and kept in cfg, term and env.                           *)
(***************************************************************************)
EXTENDS Integers, Sequences, FiniteSets, TLC

(* ------------------------------ bounds -------------------------------- *)
\* Storage capacities of ships and rockets (game.h: 80, 150), scaled down.
MAX_NAVES == 2
MAX_FOGUETES == 2
\* Launch-bay storage (game.h: 15), scaled down.
MAX_LANCADORES == 2
\* Hit-marker capacity (render.c: 32) and a marker's life in frames
\* (render.c: 5), scaled down.
MAX_EXPLOSIONS == 2
EXPL_FRAMES == 2
\* The most fire keys a run's user presses, over all runs (the size of the
\* rocket task pool); a run's own budget is env.shots.
MaxShots == 3
\* The terminal's width and height (render.c clamps the real ones to >= 40 x 8;
\* game.c starts from 120 x 32), scaled down.  The height is the smallest one
\* in which a ship scans for rockets before it reaches the ground line.
TermW == 1
TermH == 8
\* The screen metrics game_init starts from (game.c: 120 x 32), scaled down; the
\* first frame replaces them by the terminal's.
DEF_W == 1
DEF_H == 8
\* render_game's lower clamp of the terminal width (render.c: 40), scaled down.
MIN_TERM_W == 1

(* ------------------------- program constants -------------------------- *)
HUD_H == 3
CTRL_H == 2
MIN_TERM_H == 8
TOL == 2
KILL_POINTS == 10

DIR_VERTICAL == 0
DIR_DIAGONAL_ESQ == 1
DIR_DIAGONAL_DIR == 2
DIR_HORIZONTAL_ESQ == 3
DIR_HORIZONTAL_DIR == 4
Directions == {DIR_VERTICAL, DIR_DIAGONAL_ESQ, DIR_DIAGONAL_DIR,
               DIR_HORIZONTAL_ESQ, DIR_HORIZONTAL_DIR}

\* thread_foguete's switch on f->direcao.
DirDx(d) == CASE d = DIR_VERTICAL -> 0
              [] d = DIR_DIAGONAL_ESQ -> -1
              [] d = DIR_DIAGONAL_DIR -> 1
              [] d = DIR_HORIZONTAL_ESQ -> -1
              [] OTHER -> 1
DirDy(d) == IF d \in {DIR_HORIZONTAL_ESQ, DIR_HORIZONTAL_DIR} THEN 0 ELSE -1

Abs(n) == IF n < 0 THEN -n ELSE n

\* game.c's difficulty table DIFFS (Easy, Medium, Hard: 4/7/12 launchers and
\* 30/40/60 ships), scaled down.
DIFFS == <<[launchers |-> 1, ships_total |-> 1],
           [launchers |-> 1, ships_total |-> 2],
           [launchers |-> 2, ships_total |-> 3]>>
\* The largest ships_total of the table.
MaxShips == 3

NaveSlots == 0 .. (MAX_NAVES - 1)
FogSlots == 0 .. (MAX_FOGUETES - 1)
BaySlots == 0 .. (MAX_LANCADORES - 1)
\* Ship tasks and rocket tasks, numbered in the order pthread_create starts
\* them; the number is the handle stored in the slot (0: no handle stored).
\* (One ship more than a level has can only come from a second caller of
\* criar_nave.)
NaveTasks == 1 .. (MaxShips + 1)
FogTasks == 1 .. MaxShots
\* Occupancies of ship slots, numbered in the order criar_nave makes them.
Occupancies == 1 .. (MaxShips + 1)

Mutexes == {"mutex_naves", "mutex_foguetes", "mutex_estado",
            "mutex_lancadores", "mutex_render", "s_expl_mtx"}
\* The callers of criar_nave: thread_principal is the program's only one;
\* "other" is a second, concurrent caller that only SpecTwoCallers runs.
Callers == {"main", "other"}
\* Only these tasks hold a mutex from one step to the next.
Holders == {"main", "input", "art", "other"}

\* The keys process_input acts on (one per action; the input alphabet).
Keys == {"a", "d", "w", "q", "e", "z", "c", " ", "x"}

(* ------------------------------- state -------------------------------- *)
VARIABLES
  mutex,                \* the six mutexes: holder, or "none"
  game_over,            \* atomic_bool
  naves,                \* Nave naves[MAX_NAVES]
  num_naves_ativas,
  foguetes,             \* Foguete foguetes[MAX_FOGUETES]
  num_foguetes_ativos,
  lancadores,           \* Lancador lancadores[]
  pontuacao, naves_destruidas, naves_chegaram, naves_spawned,
  shots_fired, shots_hit, current_streak, best_streak,
  bateria_x, direcao_atual, screen_width, screen_height,
  s_expl,               \* render.c's hit markers, s_expl[0 .. s_expl_count-1]
  term,                 \* what getmaxyx reports: <<width, height>>
  cfg,                  \* game->cfg = DIFFS[dificuldade], fixed by game_init
  env,                  \* the run's environment: the keys its user presses,
                        \* the fire keys among them, whether the system may
                        \* refuse memory or a thread
  main,                 \* the orchestrator's position and locals
  cn,                   \* criar_nave's callers: position and locals in the call
  input,                \* the input reader's position and locals
  art,                  \* the reloader's position and locals
  naveT,                \* ship tasks: position and locals
  fogT,                 \* rocket tasks: position and locals
  occId,                \* history: the occupancy in each ship slot (0: none yet)
  destroyEvents,        \* history: destroy scoring events per occupancy
  groundEvents          \* history: escape scoring events per occupancy

estadoVars == <<pontuacao, naves_destruidas, naves_chegaram, naves_spawned,
                shots_fired, shots_hit, current_streak, best_streak,
                bateria_x, direcao_atual, screen_width, screen_height>>
scoreVars == <<pontuacao, naves_destruidas, naves_chegaram,
               shots_hit, current_streak, best_streak>>
viewVars == <<bateria_x, direcao_atual, screen_width, screen_height>>
navesVars == <<naves, num_naves_ativas, occId>>
foguetesVars == <<foguetes, num_foguetes_ativos>>
histVars == <<destroyEvents, groundEvents>>
envVars == <<term, cfg, env>>
mainVars == <<main, cn>>
vars == <<mutex, game_over, naves, num_naves_ativas, foguetes,
          num_foguetes_ativos, lancadores, pontuacao, naves_destruidas,
          naves_chegaram, naves_spawned, shots_fired, shots_hit,
          current_streak, best_streak, bateria_x, direcao_atual,
          screen_width, screen_height, s_expl, term, cfg, env, main, cn,
          input, art, naveT, fogT, occId, destroyEvents, groundEvents>>

\* game_init lines 39-41: naves_total and num_lancadores are copies of cfg.
naves_total == cfg.ships_total
num_lancadores == cfg.launchers
Bays == 0 .. (num_lancadores - 1)

Free(m) == mutex[m] = "none"

\* The process runs until main() returns or the process is ended; its tasks
\* take steps only while it runs.
ProcessAlive == main.pc \notin {"done", "crashed"}

\* A task that has not been created, or has returned.
NoTask == [pc |-> "unborn", slot |-> 0, x |-> 0, y |-> 0, occ |-> 0]

\* thread_nave / thread_foguete: the forgiving box, |dx| <= 2 and |dy| <= 2.
Near(ax, ay, bx, by) == Abs(ax - bx) <= TOL /\ Abs(ay - by) <= TOL

\* The ground line, sh - ch - 1 (thread_nave, tentar_disparar, render_game).
GroundY(sh) == sh - CTRL_H - 1

(* --------------------------- render.c markers ------------------------- *)
\* expl_add: a marker with its whole life is appended unless the store is full.
expl_add(store, x, y) ==
  IF Len(store) < MAX_EXPLOSIONS
    THEN Append(store, [x |-> x, y |-> y, frames_left |-> EXPL_FRAMES])
    ELSE store

\* Lines 48-50: the markers above position i move down by one and the
\* count drops.
expl_remove(store, i) ==
  SubSeq(store, 1, i - 1) \o SubSeq(store, i + 1, Len(store))

\* The loop of lines 45-52 from position i on, without the i-- of line 50:
\* the marker that moved into a freed position is passed over.
RECURSIVE expl_loop_skip(_, _)
expl_loop_skip(store, i) ==
  IF i > Len(store) THEN store
  ELSE LET dec == [store EXCEPT ![i].frames_left = @ - 1] IN
       IF dec[i].frames_left <= 0
         THEN expl_loop_skip(expl_remove(dec, i), i + 1)
         ELSE expl_loop_skip(dec, i + 1)

expl_update_skip(store) == expl_loop_skip(store, 1)

\* The loop of lines 45-52 from position i on: the marker at i loses a
\* frame; at 0 it is removed and the same position looked at again.
RECURSIVE expl_loop(_, _)
expl_loop(store, i) ==
  IF i > Len(store) THEN store
  ELSE LET dec == [store EXCEPT ![i].frames_left = @ - 1] IN
       IF dec[i].frames_left <= 0
         THEN expl_loop(expl_remove(dec, i), i)
         ELSE expl_loop(dec, i + 1)

\* expl_update (lines 43-54), under s_expl_mtx.
expl_update(store) == expl_loop(store, 1)

(* ----------------------------- thread_nave ---------------------------- *)
\* Line 92: the loop head reads game_over (the task's first step).
NaveLoop(k) ==
  /\ ProcessAlive
  /\ naveT[k].pc = "loop"
  /\ naveT' = [naveT EXCEPT ![k].pc = IF game_over THEN "exit" ELSE "move"]
  /\ UNCHANGED <<mutex, game_over, navesVars, foguetesVars, lancadores,
                 estadoVars, s_expl, envVars, mainVars, input, art, fogT, histVars>>

\* Lines 93-97, under mutex_naves: leave if the slot is not alive, else y++ and
\* copy the position out.
NaveMove(k) ==
  LET s == naveT[k].slot IN
  /\ ProcessAlive
  /\ naveT[k].pc = "move"
  /\ Free("mutex_naves")
  /\ IF ~naves[s].ativa
       THEN /\ naveT' = [naveT EXCEPT ![k].pc = "exit"]
            /\ UNCHANGED naves
       ELSE /\ naves' = [naves EXCEPT ![s].y = @ + 1]
            /\ naveT' = [naveT EXCEPT ![k].pc = "metrics",
                                      ![k].x = naves[s].x,
                                      ![k].y = naves[s].y + 1]
  /\ UNCHANGED <<mutex, game_over, num_naves_ativas, occId, foguetesVars,
                 lancadores, estadoVars, s_expl, envVars, mainVars, input, art, fogT,
                 histVars>>

\* Lines 101-105, under mutex_estado: read sh, ch and compare ny with the
\* ground line.
NaveMetrics(k) ==
  /\ ProcessAlive
  /\ naveT[k].pc = "metrics"
  /\ Free("mutex_estado")
  /\ naveT' = [naveT EXCEPT ![k].pc =
                 IF naveT[k].y >= GroundY(screen_height) THEN "ground"
                                                         ELSE "scan"]
  /\ UNCHANGED <<mutex, game_over, navesVars, foguetesVars, lancadores,
                 estadoVars, s_expl, envVars, mainVars, input, art, fogT, histVars>>

\* A gate that lets every task through.
GroundFirstAlways(s) == TRUE
\* The grounded gate of lines 107-112: under mutex_naves, the task is first
\* iff it finds ativa true, and then it clears it.
GroundFirst(s) == naves[s].ativa

\* Lines 106-112 and 120: the grounded gate.
NaveGround(k) ==
  LET s == naveT[k].slot IN
  /\ ProcessAlive
  /\ naveT[k].pc = "ground"
  /\ Free("mutex_naves")
  /\ IF GroundFirst(s)
       THEN /\ naves' = [naves EXCEPT ![s].ativa = FALSE]
            /\ naveT' = [naveT EXCEPT ![k].pc = "ground_score",
                                      ![k].occ = occId[s]]
       ELSE /\ naveT' = [naveT EXCEPT ![k].pc = "exit"]
            /\ UNCHANGED naves
  /\ UNCHANGED <<mutex, game_over, num_naves_ativas, occId, foguetesVars,
                 lancadores, estadoVars, s_expl, envVars, mainVars, input, art, fogT,
                 histVars>>

\* Lines 114-119, under mutex_estado: the escape is counted, the streak reset.
NaveGroundScore(k) ==
  /\ ProcessAlive
  /\ naveT[k].pc = "ground_score"
  /\ Free("mutex_estado")
  /\ naves_chegaram' = naves_chegaram + 1
  /\ current_streak' = 0
  /\ groundEvents' = [groundEvents EXCEPT ![naveT[k].occ] = @ + 1]
  /\ naveT' = [naveT EXCEPT ![k].pc = "exit"]
  /\ UNCHANGED <<mutex, game_over, navesVars, foguetesVars, lancadores,
                 pontuacao, naves_destruidas, naves_spawned, shots_fired,
                 shots_hit, best_streak, viewVars, s_expl, envVars, mainVars, input,
                 art, fogT, destroyEvents>>

\* The rockets a ship at (x, y) collides with, lines 127-130.
RocketsNear(x, y) ==
  {i \in FogSlots : foguetes[i].ativa /\ Near(foguetes[i].x, foguetes[i].y, x, y)}

Lowest(S) == CHOOSE i \in S : \A j \in S : i <= j

\* Lines 124-137, under mutex_foguetes: the first active rocket in the box is
\* marked not alive.
NaveScan(k) ==
  LET hits == RocketsNear(naveT[k].x, naveT[k].y) IN
  /\ ProcessAlive
  /\ naveT[k].pc = "scan"
  /\ Free("mutex_foguetes")
  /\ IF hits # {}
       THEN /\ foguetes' = [foguetes EXCEPT ![Lowest(hits)].ativa = FALSE]
            /\ naveT' = [naveT EXCEPT ![k].pc = "gate"]
       ELSE /\ naveT' = [naveT EXCEPT ![k].pc = "sleep"]
            /\ UNCHANGED foguetes
  /\ UNCHANGED <<mutex, game_over, navesVars, num_foguetes_ativos, lancadores,
                 estadoVars, s_expl, envVars, mainVars, input, art, fogT, histVars>>

\* A gate that lets every task through.
GateFirstAlways(s) == TRUE
\* The destroyed gate of lines 141-147: under mutex_naves, the task is first
\* iff it finds ativa true, and then it clears it.
GateFirst(s) == naves[s].ativa

\* Lines 139-147 and 159: the destroyed gate.
NaveGate(k) ==
  LET s == naveT[k].slot IN
  /\ ProcessAlive
  /\ naveT[k].pc = "gate"
  /\ Free("mutex_naves")
  /\ IF GateFirst(s)
       THEN /\ naves' = [naves EXCEPT ![s].ativa = FALSE,
                                      ![s].destruida = TRUE]
            /\ naveT' = [naveT EXCEPT ![k].pc = "explode",
                                      ![k].occ = occId[s]]
       ELSE /\ naveT' = [naveT EXCEPT ![k].pc = "exit"]
            /\ UNCHANGED naves
  /\ UNCHANGED <<mutex, game_over, num_naves_ativas, occId, foguetesVars,
                 lancadores, estadoVars, s_expl, envVars, mainVars, input, art, fogT,
                 histVars>>

\* Line 150: render_add_explosion(nx, ny), under s_expl_mtx.
NaveExplode(k) ==
  /\ ProcessAlive
  /\ naveT[k].pc = "explode"
  /\ Free("s_expl_mtx")
  /\ s_expl' = expl_add(s_expl, naveT[k].x, naveT[k].y)
  /\ naveT' = [naveT EXCEPT ![k].pc = "score"]
  /\ UNCHANGED <<mutex, game_over, navesVars, foguetesVars, lancadores,
                 estadoVars, envVars, mainVars, input, art, fogT, histVars>>

\* A scoring block that forgets shots_hit.
ScoreKillNoHit ==
  /\ naves_destruidas' = naves_destruidas + 1
  /\ pontuacao' = pontuacao + KILL_POINTS
  /\ shots_hit' = shots_hit
  /\ current_streak' = current_streak + 1
  /\ best_streak' = IF current_streak + 1 > best_streak
                      THEN current_streak + 1 ELSE best_streak

\* A scoring block that forgets best_streak.
ScoreKillNoBest ==
  /\ naves_destruidas' = naves_destruidas + 1
  /\ pontuacao' = pontuacao + KILL_POINTS
  /\ shots_hit' = shots_hit + 1
  /\ current_streak' = current_streak + 1
  /\ best_streak' = best_streak

\* The scoring block of lines 151-157 and 242-248, under mutex_estado.
ScoreKill ==
  /\ naves_destruidas' = naves_destruidas + 1
  /\ pontuacao' = pontuacao + KILL_POINTS
  /\ shots_hit' = shots_hit + 1
  /\ current_streak' = current_streak + 1
  /\ best_streak' = IF current_streak + 1 > best_streak
                      THEN current_streak + 1 ELSE best_streak

\* Lines 151-157.
NaveScore(k) ==
  /\ ProcessAlive
  /\ naveT[k].pc = "score"
  /\ Free("mutex_estado")
  /\ ScoreKill
  /\ destroyEvents' = [destroyEvents EXCEPT ![naveT[k].occ] = @ + 1]
  /\ naveT' = [naveT EXCEPT ![k].pc = "exit"]
  /\ UNCHANGED <<mutex, game_over, navesVars, foguetesVars, lancadores,
                 naves_chegaram, naves_spawned, shots_fired, viewVars, s_expl,
                 envVars, mainVars, input, art, fogT, groundEvents>>

\* Lines 162 and 92: usleep(velocidade_ms * 1000), then the loop head reads
\* game_over.
NaveSleep(k) ==
  /\ ProcessAlive
  /\ naveT[k].pc = "sleep"
  /\ naveT' = [naveT EXCEPT ![k].pc = IF game_over THEN "exit" ELSE "move"]
  /\ UNCHANGED <<mutex, game_over, navesVars, foguetesVars, lancadores,
                 estadoVars, s_expl, envVars, mainVars, input, art, fogT, histVars>>

\* Lines 165-170: num_naves_ativas-- under mutex_naves, free(args), return.
NaveExit(k) ==
  /\ ProcessAlive
  /\ naveT[k].pc = "exit"
  /\ Free("mutex_naves")
  /\ num_naves_ativas' = num_naves_ativas - 1
  /\ naveT' = [naveT EXCEPT ![k] = [NoTask EXCEPT !.pc = "exited"]]
  /\ UNCHANGED <<mutex, game_over, naves, occId, foguetesVars, lancadores,
                 estadoVars, s_expl, envVars, mainVars, input, art, fogT, histVars>>

thread_nave(k) ==
  \/ NaveLoop(k) \/ NaveMove(k) \/ NaveMetrics(k) \/ NaveGround(k)
  \/ NaveGroundScore(k) \/ NaveScan(k) \/ NaveGate(k) \/ NaveExplode(k)
  \/ NaveScore(k) \/ NaveSleep(k) \/ NaveExit(k)

(* ---------------------------- thread_foguete -------------------------- *)
NoFog == [pc |-> "unborn", slot |-> 0, x |-> 0, y |-> 0, occ |-> 0,
          hit |-> 0, sw |-> 0, sh |-> 0]

\* Lines 178-184: dx, dy are set from f->direcao, with no lock held.
FogStart(k) ==
  LET s == fogT[k].slot IN
  /\ ProcessAlive
  /\ fogT[k].pc = "start"
  /\ foguetes' = [foguetes EXCEPT ![s].dx = DirDx(foguetes[s].direcao),
                                  ![s].dy = DirDy(foguetes[s].direcao)]
  /\ fogT' = [fogT EXCEPT ![k].pc = "loop"]
  /\ UNCHANGED <<mutex, game_over, navesVars, num_foguetes_ativos, lancadores,
                 estadoVars, s_expl, envVars, mainVars, input, art, naveT, histVars>>

\* Line 186: the loop head reads game_over (the first time round).
FogLoop(k) ==
  /\ ProcessAlive
  /\ fogT[k].pc = "loop"
  /\ fogT' = [fogT EXCEPT ![k].pc = IF game_over THEN "exit" ELSE "move"]
  /\ UNCHANGED <<mutex, game_over, navesVars, foguetesVars, lancadores,
                 estadoVars, s_expl, envVars, mainVars, input, art, naveT, histVars>>

\* Lines 187-191, under mutex_foguetes: leave if not alive, else add (dx, dy).
FogMove(k) ==
  LET s == fogT[k].slot IN
  /\ ProcessAlive
  /\ fogT[k].pc = "move"
  /\ Free("mutex_foguetes")
  /\ IF ~foguetes[s].ativa
       THEN /\ fogT' = [fogT EXCEPT ![k].pc = "exit"]
            /\ UNCHANGED foguetes
       ELSE /\ foguetes' = [foguetes EXCEPT ![s].x = @ + foguetes[s].dx,
                                            ![s].y = @ + foguetes[s].dy]
            /\ fogT' = [fogT EXCEPT ![k].pc = "metrics"]
  /\ UNCHANGED <<mutex, game_over, navesVars, num_foguetes_ativos, lancadores,
                 estadoVars, s_expl, envVars, mainVars, input, art, naveT, histVars>>

\* Lines 193-197, under mutex_estado: sw, sh (hud and ch never change).
FogMetrics(k) ==
  /\ ProcessAlive
  /\ fogT[k].pc = "metrics"
  /\ Free("mutex_estado")
  /\ fogT' = [fogT EXCEPT ![k].pc = "bounds",
                          ![k].sw = screen_width, ![k].sh = screen_height]
  /\ UNCHANGED <<mutex, game_over, navesVars, foguetesVars, lancadores,
                 estadoVars, s_expl, envVars, mainVars, input, art, naveT, histVars>>

\* Line 199: outside the play area.
OutOfBounds(x, y, sw, sh) ==
  x < 0 \/ x >= sw \/ y < HUD_H \/ y >= sh - CTRL_H

\* Lines 199 and 207: f->x and f->y are read with no lock held.
FogBounds(k) ==
  LET s == fogT[k].slot IN
  /\ ProcessAlive
  /\ fogT[k].pc = "bounds"
  /\ fogT' = [fogT EXCEPT
       ![k].pc = IF OutOfBounds(foguetes[s].x, foguetes[s].y,
                                fogT[k].sw, fogT[k].sh)
                   THEN "out" ELSE "scan",
       ![k].x = foguetes[s].x, ![k].y = foguetes[s].y,
       ![k].sw = 0, ![k].sh = 0]
  /\ UNCHANGED <<mutex, game_over, navesVars, foguetesVars, lancadores,
                 estadoVars, s_expl, envVars, mainVars, input, art, naveT, histVars>>

\* A boundary case with no break: the rocket goes on to the collision scan.
AfterOutNoBreak == "scan"

\* Line 203: break, to the exit path at lines 256-261.
AfterOut == "exit"

\* Lines 200-203, under mutex_foguetes: the rocket marks itself not alive.
FogOut(k) ==
  /\ ProcessAlive
  /\ fogT[k].pc = "out"
  /\ Free("mutex_foguetes")
  /\ foguetes' = [foguetes EXCEPT ![fogT[k].slot].ativa = FALSE]
  /\ fogT' = [fogT EXCEPT ![k].pc = AfterOut]
  /\ UNCHANGED <<mutex, game_over, navesVars, num_foguetes_ativos, lancadores,
                 estadoVars, s_expl, envVars, mainVars, input, art, naveT, histVars>>

\* A test that takes every ship for alive.
ShipAliveAlways(i) == TRUE
\* Line 213: the rocket's scan skips the ships that are not alive.
ShipAlive(i) == naves[i].ativa

\* The ships a rocket at (x, y) collides with, lines 212-215: alive and in
\* the box.
ShipsNear(x, y) ==
  {i \in NaveSlots : ShipAlive(i) /\ Near(naves[i].x, naves[i].y, x, y)}

\* Lines 210-226, under mutex_naves: the first alive ship in the box is
\* flipped to not alive and destroyed; first and hit are then true.
FogScan(k) ==
  LET hits == ShipsNear(fogT[k].x, fogT[k].y) IN
  /\ ProcessAlive
  /\ fogT[k].pc = "scan"
  /\ Free("mutex_naves")
  /\ IF hits # {}
       THEN /\ naves' = [naves EXCEPT ![Lowest(hits)].ativa = FALSE,
                                      ![Lowest(hits)].destruida = TRUE]
            /\ fogT' = [fogT EXCEPT ![k].pc = "self_mark",
                                    ![k].hit = Lowest(hits),
                                    ![k].occ = occId[Lowest(hits)]]
       ELSE /\ fogT' = [fogT EXCEPT ![k].pc = "sleep"]
            /\ UNCHANGED naves
  /\ UNCHANGED <<mutex, game_over, num_naves_ativas, occId, foguetesVars,
                 lancadores, estadoVars, s_expl, envVars, mainVars, input, art, naveT,
                 histVars>>

\* Lines 228-231, under mutex_foguetes: f->ativa = false.
FogSelfMark(k) ==
  /\ ProcessAlive
  /\ fogT[k].pc = "self_mark"
  /\ Free("mutex_foguetes")
  /\ foguetes' = [foguetes EXCEPT ![fogT[k].slot].ativa = FALSE]
  /\ fogT' = [fogT EXCEPT ![k].pc = "read_ship"]
  /\ UNCHANGED <<mutex, game_over, navesVars, num_foguetes_ativos, lancadores,
                 estadoVars, s_expl, envVars, mainVars, input, art, naveT, histVars>>

\* Lines 233-238, under mutex_naves: the hit ship's position is read back.
FogReadShip(k) ==
  /\ ProcessAlive
  /\ fogT[k].pc = "read_ship"
  /\ Free("mutex_naves")
  /\ fogT' = [fogT EXCEPT ![k].pc = "explode",
                          ![k].x = naves[fogT[k].hit].x,
                          ![k].y = naves[fogT[k].hit].y]
  /\ UNCHANGED <<mutex, game_over, navesVars, foguetesVars, lancadores,
                 estadoVars, s_expl, envVars, mainVars, input, art, naveT, histVars>>

\* Line 239: render_add_explosion(ex, ey), under s_expl_mtx.
FogExplode(k) ==
  /\ ProcessAlive
  /\ fogT[k].pc = "explode"
  /\ Free("s_expl_mtx")
  /\ s_expl' = expl_add(s_expl, fogT[k].x, fogT[k].y)
  /\ fogT' = [fogT EXCEPT ![k].pc = "score"]
  /\ UNCHANGED <<mutex, game_over, navesVars, foguetesVars, lancadores,
                 estadoVars, envVars, mainVars, input, art, naveT, histVars>>

\* Lines 241-249.
FogScore(k) ==
  /\ ProcessAlive
  /\ fogT[k].pc = "score"
  /\ Free("mutex_estado")
  /\ ScoreKill
  /\ destroyEvents' = [destroyEvents EXCEPT ![fogT[k].occ] = @ + 1]
  /\ fogT' = [fogT EXCEPT ![k].pc = "exit"]
  /\ UNCHANGED <<mutex, game_over, navesVars, foguetesVars, lancadores,
                 naves_chegaram, naves_spawned, shots_fired, viewVars, s_expl,
                 envVars, mainVars, input, art, naveT, groundEvents>>

\* Lines 253 and 186: usleep(35000), then the loop head reads game_over.
FogSleep(k) ==
  /\ ProcessAlive
  /\ fogT[k].pc = "sleep"
  /\ fogT' = [fogT EXCEPT ![k].pc = IF game_over THEN "exit" ELSE "move"]
  /\ UNCHANGED <<mutex, game_over, navesVars, foguetesVars, lancadores,
                 estadoVars, s_expl, envVars, mainVars, input, art, naveT, histVars>>

\* Lines 256-261: num_foguetes_ativos-- under mutex_foguetes, free(args), return.
FogExit(k) ==
  /\ ProcessAlive
  /\ fogT[k].pc = "exit"
  /\ Free("mutex_foguetes")
  /\ num_foguetes_ativos' = num_foguetes_ativos - 1
  /\ fogT' = [fogT EXCEPT ![k] = [NoFog EXCEPT !.pc = "exited"]]
  /\ UNCHANGED <<mutex, game_over, navesVars, foguetes, lancadores,
                 estadoVars, s_expl, envVars, mainVars, input, art, naveT, histVars>>

thread_foguete(k) ==
  \/ FogStart(k) \/ FogLoop(k) \/ FogMove(k) \/ FogMetrics(k) \/ FogBounds(k)
  \/ FogOut(k) \/ FogScan(k) \/ FogSelfMark(k) \/ FogReadShip(k)
  \/ FogExplode(k) \/ FogScore(k) \/ FogSleep(k) \/ FogExit(k)

(* -------------------------- thread_artilheiro ------------------------- *)
\* The reloader's locals are i and dir (dir_atual); saw_over is the value of
\* game_over at its last read of the flag (lines 267, 283 and 292).
EmptyBays == {i \in Bays : ~lancadores[i].tem_foguete}

\* A signal that is never sent: the waiting reloader stays as it is.
WakeNobody(a) == a

\* pthread_cond_signal / pthread_cond_broadcast on cond_lancador_vazio: the
\* reloader is its only waiter.
WakeReloader(a) == IF a.pc = "waiting" THEN [a EXCEPT !.pc = "woken"] ELSE a

\* Line 267: the loop head reads game_over; the task returns when it is set.
ArtLoop ==
  /\ ProcessAlive
  /\ art.pc = "loop"
  /\ art' = [art EXCEPT !.pc = IF game_over THEN "exited" ELSE "lock",
                        !.saw_over = game_over]
  /\ UNCHANGED <<mutex, game_over, navesVars, foguetesVars, lancadores,
                 estadoVars, s_expl, envVars, mainVars, input, naveT, fogT, histVars>>

\* Line 270: pthread_mutex_lock(&mutex_lancadores).
ArtLock ==
  /\ ProcessAlive
  /\ art.pc = "lock"
  /\ Free("mutex_lancadores")
  /\ mutex' = [mutex EXCEPT !["mutex_lancadores"] = "art"]
  /\ art' = [art EXCEPT !.pc = "scan"]
  /\ UNCHANGED <<game_over, navesVars, foguetesVars, lancadores, estadoVars,
                 s_expl, envVars, mainVars, input, naveT, fogT, histVars>>

\* Lines 291-298 and 301: with every bay loaded, the reloader waits on
\* cond_lancador_vazio (which releases mutex_lancadores) unless game_over is
\* set, and then it unlocks and goes back to the loop head.
WaitOrLeave == IF game_over THEN "loop" ELSE "waiting"

\* A reloader that goes to its reload sleep with mutex_lancadores held.
SleepLocked == mutex

\* Line 279: mutex_lancadores is released before the reload sleep.
SleepUnlocked == [mutex EXCEPT !["mutex_lancadores"] = "none"]

\* Lines 271-279 (an unloaded bay: its index and, under mutex_estado, the
\* current aim are captured, mutex_lancadores is released for the sleep) and
\* lines 291-293 (no unloaded bay).
ArtScan ==
  /\ ProcessAlive
  /\ art.pc = "scan"
  /\ IF EmptyBays # {}
       THEN /\ Free("mutex_estado")
            /\ art' = [art EXCEPT !.pc = "sleep", !.i = Lowest(EmptyBays),
                                  !.dir = direcao_atual]
            /\ mutex' = SleepUnlocked
       ELSE /\ art' = [art EXCEPT !.pc = WaitOrLeave, !.saw_over = game_over]
            /\ mutex' = [mutex EXCEPT !["mutex_lancadores"] = "none"]
  /\ UNCHANGED <<game_over, navesVars, foguetesVars, lancadores, estadoVars,
                 s_expl, envVars, mainVars, input, naveT, fogT, histVars>>

\* Line 280: usleep(tempo_recarga * 1000), no lock held.
ArtSleep ==
  /\ ProcessAlive
  /\ art.pc = "sleep"
  /\ art' = [art EXCEPT !.pc = "reload"]
  /\ UNCHANGED <<mutex, game_over, navesVars, foguetesVars, lancadores,
                 estadoVars, s_expl, envVars, mainVars, input, naveT, fogT, histVars>>

\* A test that does not look at game_over.
MayLoadUnchecked(i) == ~lancadores[i].tem_foguete

\* Line 283: the run goes on and the bay is still unloaded.
MayLoad(i) == ~game_over /\ ~lancadores[i].tem_foguete

\* Lines 281-287 and 301, under mutex_lancadores: the bay is loaded with the
\* captured aim if the run goes on and the bay is still unloaded.
ArtReload ==
  /\ ProcessAlive
  /\ art.pc = "reload"
  /\ Free("mutex_lancadores")
  /\ lancadores' =
       IF MayLoad(art.i)
         THEN [lancadores EXCEPT ![art.i] =
                 [tem_foguete |-> TRUE, direcao |-> art.dir]]
         ELSE lancadores
  /\ art' = [pc |-> "loop", i |-> 0, dir |-> 0, saw_over |-> game_over]
  /\ UNCHANGED <<mutex, game_over, navesVars, foguetesVars, estadoVars,
                 s_expl, envVars, mainVars, input, naveT, fogT, histVars>>

\* Lines 293-298 and 301: pthread_cond_wait returns with mutex_lancadores
\* re-acquired; an unloaded bay ends the wait, else the inner loop's head
\* decides as before.
ArtWoken ==
  /\ ProcessAlive
  /\ art.pc = "woken"
  /\ Free("mutex_lancadores")
  /\ art' = IF EmptyBays # {}
              THEN [art EXCEPT !.pc = "loop"]
              ELSE [art EXCEPT !.pc = WaitOrLeave, !.saw_over = game_over]
  /\ UNCHANGED <<mutex, game_over, navesVars, foguetesVars, lancadores,
                 estadoVars, s_expl, envVars, mainVars, input, naveT, fogT, histVars>>

\* POSIX lets pthread_cond_wait return with no signal.
ArtSpuriousWakeup ==
  /\ ProcessAlive
  /\ art.pc = "waiting"
  /\ art' = [art EXCEPT !.pc = "woken"]
  /\ UNCHANGED <<mutex, game_over, navesVars, foguetesVars, lancadores,
                 estadoVars, s_expl, envVars, mainVars, input, naveT, fogT, histVars>>

thread_artilheiro ==
  \/ ArtLoop \/ ArtLock \/ ArtScan \/ ArtSleep \/ ArtReload \/ ArtWoken

(* ------------------- thread_input and process_input ------------------- *)
\* fired is what the last tentar_disparar returned ("none": no call made in
\* this round of the loop) and shots0 the value of shots_fired when it was
\* called; li and fi are tentar_disparar's lancador_idx and foguete_idx (-1:
\* the search found none).
Idle == [pc |-> "loop", key |-> "ERR", li |-> 0, fi |-> 0,
         fired |-> "none", shots0 |-> 0]

\* Line 74: the loop head reads game_over (the task's first step); the task
\* returns when it is set.
InputLoop ==
  /\ ProcessAlive
  /\ input.pc = "loop"
  /\ input' = [input EXCEPT !.pc = IF game_over THEN "exited" ELSE "getch"]
  /\ UNCHANGED <<mutex, game_over, navesVars, foguetesVars, lancadores,
                 estadoVars, s_expl, envVars, mainVars, art, naveT, fogT, histVars>>

\* Lines 75-79, under mutex_render: getch() gives a key or ERR.
InputGetch ==
  /\ ProcessAlive
  /\ input.pc = "getch"
  /\ Free("mutex_render")
  /\ \E ch \in env.keys \cup {"ERR"} :
       /\ ch = " " => shots_fired < env.shots
       /\ input' = [input EXCEPT !.pc = IF ch = "ERR" THEN "sleep"
                                                       ELSE "process",
                                 !.key = ch]
  /\ UNCHANGED <<mutex, game_over, navesVars, foguetesVars, lancadores,
                 estadoVars, s_expl, envVars, mainVars, art, naveT, fogT, histVars>>

\* A fire key that calls tentar_disparar with mutex_estado still held.
FireCallHolding ==
  /\ input' = [input EXCEPT !.pc = "td_lock_l", !.key = "ERR",
                            !.shots0 = shots_fired]
  /\ mutex' = [mutex EXCEPT !["mutex_estado"] = "input"]

\* input.c lines 32-36: the fire key releases mutex_estado and calls
\* tentar_disparar.
FireCall ==
  /\ input' = [input EXCEPT !.pc = "td_lock_l", !.key = "ERR",
                            !.shots0 = shots_fired]
  /\ UNCHANGED mutex

\* input.c lines 16-31: the aim direction a key selects.
KeyDirection(key) ==
  CASE key = "w" -> DIR_VERTICAL
    [] key = "q" -> DIR_DIAGONAL_ESQ
    [] key = "e" -> DIR_DIAGONAL_DIR
    [] key = "z" -> DIR_HORIZONTAL_ESQ
    [] key = "c" -> DIR_HORIZONTAL_DIR
    [] OTHER -> direcao_atual

\* input.c lines 16-21: the battery moves inside 0 .. screen_width - 1.
KeyBateria(key) ==
  CASE key = "a" -> IF bateria_x > 0 THEN bateria_x - 1 ELSE bateria_x
    [] key = "d" -> IF bateria_x < screen_width - 1 THEN bateria_x + 1
                                                     ELSE bateria_x
    [] OTHER -> bateria_x

\* A quit case that stores the outcome of the key test in the flag.
FlagAfterKeyAssigned(key) == key = "x"

\* input.c lines 37-39: the quit keys store true in game_over; no other key
\* touches it.
FlagAfterKey(key) == game_over \/ key = "x"

\* process_input, input.c lines 10-43, under mutex_estado.
InputProcess ==
  /\ ProcessAlive
  /\ input.pc = "process"
  /\ Free("mutex_estado")
  /\ IF input.key = " "
       THEN /\ FireCall
            /\ UNCHANGED <<game_over, bateria_x, direcao_atual>>
       ELSE /\ bateria_x' = KeyBateria(input.key)
            /\ direcao_atual' = KeyDirection(input.key)
            /\ game_over' = FlagAfterKey(input.key)
            /\ input' = [input EXCEPT !.pc = "sleep", !.key = "ERR"]
            /\ UNCHANGED mutex
  /\ UNCHANGED <<navesVars, foguetesVars, lancadores, scoreVars,
                 naves_spawned, shots_fired, screen_width, screen_height,
                 s_expl, envVars, mainVars, art, naveT, fogT, histVars>>

\* threads.c lines 80 and 74: usleep(2000), then the loop head reads
\* game_over.
InputSleep ==
  /\ ProcessAlive
  /\ input.pc = "sleep"
  /\ input' = [Idle EXCEPT !.pc = IF game_over THEN "exited" ELSE "getch"]
  /\ UNCHANGED <<mutex, game_over, navesVars, foguetesVars, lancadores,
                 estadoVars, s_expl, envVars, mainVars, art, naveT, fogT, histVars>>

(* --------------------------- tentar_disparar -------------------------- *)
LoadedBays == {i \in Bays : lancadores[i].tem_foguete}
FreeFogSlots == {i \in FogSlots : ~foguetes[i].ativa}

\* game.c lines 140-148: mutex_lancadores is taken and the first loaded bay
\* looked for; with none the lock is released and the call returns false.
FireLockBays ==
  /\ ProcessAlive
  /\ input.pc = "td_lock_l"
  /\ Free("mutex_lancadores")
  /\ IF LoadedBays = {}
       THEN /\ input' = [input EXCEPT !.pc = "sleep", !.fired = "false",
                                      !.li = -1]
            /\ UNCHANGED mutex
       ELSE /\ input' = [input EXCEPT !.pc = "td_lock_f",
                                      !.li = Lowest(LoadedBays)]
            /\ mutex' = [mutex EXCEPT !["mutex_lancadores"] = "input"]
  /\ UNCHANGED <<game_over, navesVars, foguetesVars, lancadores, estadoVars,
                 s_expl, envVars, mainVars, art, naveT, fogT, histVars>>

\* A failed slot search that returns with mutex_lancadores still held.
NoSlotLocked == mutex

\* Lines 155-159: with no free slot mutex_foguetes and mutex_lancadores are
\* released before the return.
NoSlotUnlocked == [mutex EXCEPT !["mutex_lancadores"] = "none"]

\* Lines 150-159: mutex_foguetes is taken inside mutex_lancadores and the
\* first free slot looked for; with none both are released, return false.
FireLockRockets ==
  /\ ProcessAlive
  /\ input.pc = "td_lock_f"
  /\ Free("mutex_foguetes")
  /\ IF FreeFogSlots = {}
       THEN /\ input' = [input EXCEPT !.pc = "sleep", !.fired = "false",
                                      !.fi = -1]
            /\ mutex' = NoSlotUnlocked
       ELSE /\ input' = [input EXCEPT !.pc = "td_fill",
                                      !.fi = Lowest(FreeFogSlots)]
            /\ mutex' = [mutex EXCEPT !["mutex_foguetes"] = "input"]
  /\ UNCHANGED <<game_over, navesVars, foguetesVars, lancadores, estadoVars,
                 s_expl, envVars, mainVars, art, naveT, fogT, histVars>>

\* Line 172: the battery position clamped into 0 .. sw - 1.
ClampX(bx, sw) == IF bx < 0 THEN 0 ELSE IF bx >= sw THEN sw - 1 ELSE bx

\* A shot that empties every bay.
UnloadAll(bays, i) ==
  [j \in DOMAIN bays |-> [bays[j] EXCEPT !.tem_foguete = FALSE]]

\* Line 179: lancadores[lancador_idx].tem_foguete = false.
Unload(bays, i) == [bays EXCEPT ![i].tem_foguete = FALSE]

\* Lines 161-180: the aim is read under mutex_estado (inside the two locks),
\* the slot is filled, the bay unloaded and cond_lancador_vazio signalled.
FireFill ==
  /\ ProcessAlive
  /\ input.pc = "td_fill"
  /\ Free("mutex_estado")
  /\ foguetes' = [foguetes EXCEPT ![input.fi] =
       [@ EXCEPT !.x = ClampX(bateria_x, screen_width),
                 !.y = GroundY(screen_height),
                 !.direcao = direcao_atual,
                 !.lancador_id = input.li,
                 !.ativa = TRUE]]
  /\ num_foguetes_ativos' = num_foguetes_ativos + 1
  /\ lancadores' = Unload(lancadores, input.li)
  /\ art' = WakeReloader(art)
  /\ input' = [input EXCEPT !.pc = "td_count"]
  /\ UNCHANGED <<mutex, game_over, navesVars, estadoVars, s_expl, envVars, mainVars,
                 naveT, fogT, histVars>>

\* Lines 183-190: shots_fired++ under mutex_estado, then mutex_foguetes and
\* mutex_lancadores are released.
FireCount ==
  /\ ProcessAlive
  /\ input.pc = "td_count"
  /\ Free("mutex_estado")
  /\ shots_fired' = shots_fired + 1
  /\ mutex' = [mutex EXCEPT !["mutex_foguetes"] = "none",
                            !["mutex_lancadores"] = "none"]
  /\ input' = [input EXCEPT !.pc = "td_create"]
  /\ UNCHANGED <<game_over, navesVars, foguetesVars, lancadores, scoreVars,
                 naves_spawned, viewVars, s_expl, envVars, mainVars, art, naveT, fogT,
                 histVars>>

\* The task a successful pthread_create starts: the next one never started.
UnbornFogs == {k \in FogTasks : fogT[k].pc = "unborn"}

\* Lines 192-197: malloc and pthread_create, no lock held.  A failed malloc
\* returns true with the slot left alive; a failed pthread_create goes on to
\* the rollback; a successful one stores the handle in the slot and starts
\* the task.
FireCreate ==
  /\ ProcessAlive
  /\ input.pc = "td_create"
  /\ \/ /\ env.faults
        /\ input' = [input EXCEPT !.pc = "sleep", !.fired = "true"]
        /\ UNCHANGED <<foguetes, fogT>>
     \/ /\ env.faults
        /\ input' = [input EXCEPT !.pc = "td_rollback"]
        /\ UNCHANGED <<foguetes, fogT>>
     \/ /\ UnbornFogs # {}
        /\ fogT' = [fogT EXCEPT ![Lowest(UnbornFogs)] =
                      [NoFog EXCEPT !.pc = "start", !.slot = input.fi]]
        /\ foguetes' = [foguetes EXCEPT
                          ![input.fi].thread_id = Lowest(UnbornFogs)]
        /\ input' = [input EXCEPT !.pc = "sleep", !.fired = "true"]
  /\ UNCHANGED <<mutex, game_over, navesVars, num_foguetes_ativos, lancadores,
                 estadoVars, s_expl, envVars, mainVars, art, naveT, histVars>>

\* Lines 198-203, under mutex_foguetes: the slot is given back.
FireRollback ==
  /\ ProcessAlive
  /\ input.pc = "td_rollback"
  /\ Free("mutex_foguetes")
  /\ foguetes' = [foguetes EXCEPT ![input.fi].ativa = FALSE]
  /\ num_foguetes_ativos' = num_foguetes_ativos - 1
  /\ input' = [input EXCEPT !.pc = "sleep", !.fired = "false"]
  /\ UNCHANGED <<mutex, game_over, navesVars, lancadores, estadoVars, s_expl,
                 envVars, mainVars, art, naveT, fogT, histVars>>

tentar_disparar ==
  \/ FireLockBays \/ FireLockRockets \/ FireFill \/ FireCount \/ FireCreate
  \/ FireRollback

thread_input ==
  \/ InputLoop \/ InputGetch \/ InputProcess \/ InputSleep \/ tentar_disparar

(* ------------------------------ criar_nave ---------------------------- *)
FreeNaveSlots == {i \in NaveSlots : ~naves[i].ativa}

\* The occupancies made so far (history).
MadeOccupancies == {occId[i] : i \in NaveSlots} \ {0}
NextOccupancy ==
  IF MadeOccupancies = {} THEN 1
  ELSE 1 + (CHOOSE o \in MadeOccupancies : \A p \in MadeOccupancies : p <= o)

\* A caller that is not inside criar_nave.
NoCall == [pc |-> "idle", idx |-> 0, result |-> "none", spawned0 |-> 0,
           ativas0 |-> 0]
\* The call begins: naves_spawned and num_naves_ativas at entry are kept
\* for the record.
Call == [NoCall EXCEPT !.pc = "check", !.result = "running",
                       !.spawned0 = naves_spawned,
                       !.ativas0 = num_naves_ativas]
\* criar_nave returns to its caller, with what happened for the record.
Return(c, result) == [cn EXCEPT ![c].pc = "ret", ![c].result = result]

\* game.c lines 89-94, under mutex_estado: the call returns if all ships of
\* the level are spawned.  The section reads naves_spawned and leaves it as
\* it is.
CriarNaveCheck(c) ==
  /\ ProcessAlive
  /\ cn[c].pc = "check"
  /\ Free("mutex_estado")
  /\ cn' = IF naves_spawned >= naves_total
             THEN Return(c, "level_done")
             ELSE [cn EXCEPT ![c].pc = "lock"]
  /\ UNCHANGED <<mutex, game_over, navesVars, foguetesVars, lancadores,
                 estadoVars, s_expl, envVars, main, input, art, naveT, fogT,
                 histVars>>

\* Lines 96-105: mutex_naves is taken; with the store full or no free slot it
\* is released and the call returns.
CriarNaveLock(c) ==
  /\ ProcessAlive
  /\ cn[c].pc = "lock"
  /\ Free("mutex_naves")
  /\ IF num_naves_ativas >= MAX_NAVES \/ FreeNaveSlots = {}
       THEN /\ cn' = Return(c, "no_slot")
            /\ UNCHANGED mutex
       ELSE /\ cn' = [cn EXCEPT ![c].pc = "init",
                                ![c].idx = Lowest(FreeNaveSlots)]
            /\ mutex' = [mutex EXCEPT !["mutex_naves"] = c]
  /\ UNCHANGED <<game_over, navesVars, foguetesVars, lancadores, estadoVars,
                 s_expl, envVars, main, input, art, naveT, fogT, histVars>>

\* Lines 107-118: w and hud are read under mutex_estado (inside mutex_naves),
\* the slot is filled at a random column of the top row and made alive,
\* num_naves_ativas++, mutex_naves is released.
CriarNaveInit(c) ==
  /\ ProcessAlive
  /\ cn[c].pc = "init"
  /\ Free("mutex_estado")
  /\ \E x \in (IF screen_width > 0 THEN 0 .. (screen_width - 1) ELSE {0}) :
       naves' = [naves EXCEPT ![cn[c].idx] =
         [@ EXCEPT !.x = x, !.y = HUD_H, !.ativa = TRUE, !.destruida = FALSE]]
  /\ num_naves_ativas' = num_naves_ativas + 1
  /\ occId' = [occId EXCEPT ![cn[c].idx] = NextOccupancy]
  /\ mutex' = [mutex EXCEPT !["mutex_naves"] = "none"]
  /\ cn' = [cn EXCEPT ![c].pc = "inc"]
  /\ UNCHANGED <<game_over, foguetesVars, lancadores, estadoVars, s_expl,
                 envVars, main, input, art, naveT, fogT, histVars>>

\* Lines 120-122, under mutex_estado: naves_spawned++.
CriarNaveCount(c) ==
  /\ ProcessAlive
  /\ cn[c].pc = "inc"
  /\ Free("mutex_estado")
  /\ naves_spawned' = naves_spawned + 1
  /\ cn' = [cn EXCEPT ![c].pc = "create"]
  /\ UNCHANGED <<mutex, game_over, navesVars, foguetesVars, lancadores,
                 scoreVars, shots_fired, viewVars, s_expl, envVars, main,
                 input, art, naveT, fogT, histVars>>

\* The task a successful pthread_create starts: the next one never started.
UnbornNaves == {k \in NaveTasks : naveT[k].pc = "unborn"}

\* Lines 124-128: malloc and pthread_create, no lock held.  A failed malloc
\* returns at once; a failed pthread_create goes on to lines 129-133; a
\* successful one stores the handle in the slot and starts thread_nave.
CriarNaveCreate(c) ==
  /\ ProcessAlive
  /\ cn[c].pc = "create"
  /\ \/ /\ env.faults
        /\ cn' = Return(c, "malloc_failed")
        /\ UNCHANGED <<naves, naveT>>
     \/ /\ env.faults
        /\ cn' = [cn EXCEPT ![c].pc = "rollback"]
        /\ UNCHANGED <<naves, naveT>>
     \/ /\ UnbornNaves # {}
        /\ naveT' = [naveT EXCEPT ![Lowest(UnbornNaves)] =
                       [NoTask EXCEPT !.pc = "loop", !.slot = cn[c].idx]]
        /\ naves' = [naves EXCEPT ![cn[c].idx].thread_id = Lowest(UnbornNaves)]
        /\ cn' = Return(c, "launched")
  /\ UNCHANGED <<mutex, game_over, num_naves_ativas, occId, foguetesVars,
                 lancadores, estadoVars, s_expl, envVars, main, input, art,
                 fogT, histVars>>

\* Lines 129-134, under mutex_naves: the slot is given back.
CriarNaveRollback(c) ==
  /\ ProcessAlive
  /\ cn[c].pc = "rollback"
  /\ Free("mutex_naves")
  /\ naves' = [naves EXCEPT ![cn[c].idx].ativa = FALSE]
  /\ num_naves_ativas' = num_naves_ativas - 1
  /\ cn' = Return(c, "create_failed")
  /\ UNCHANGED <<mutex, game_over, occId, foguetesVars, lancadores, estadoVars,
                 s_expl, envVars, main, input, art, naveT, fogT, histVars>>

criar_nave(c) ==
  \/ CriarNaveCheck(c) \/ CriarNaveLock(c) \/ CriarNaveInit(c)
  \/ CriarNaveCount(c) \/ CriarNaveCreate(c) \/ CriarNaveRollback(c)

(* ---------------------------- thread_principal ------------------------ *)
\* threads.c line 26: the loop head reads game_over (the first time round);
\* when it is set the function returns and main() calls finalizar_threads.
MainLoop ==
  /\ main.pc = "loop"
  /\ main' = [main EXCEPT !.pc = IF game_over THEN "fin_set" ELSE "check"]
  /\ UNCHANGED <<cn, mutex, game_over, navesVars, foguetesVars, lancadores,
                 estadoVars, s_expl, envVars, input, art, naveT, fogT, histVars>>

\* An end condition that is met with half of the ships landed.
LoseAtHalf(reached, total) == reached >= (total \div 2)

\* An end condition that waits for every ship of the level to land.
LoseWhenAll(reached, total) == reached >= total

\* Line 36: immediate defeat when more than half of the ships have landed.
LoseNow(reached, total) == reached > (total \div 2)
\* Line 39: every ship of the level is destroyed or has landed.
AllHandled(destroyed, reached, total) == destroyed + reached >= total

\* Lines 28-43 and 52-59: under mutex_estado the counters are read and the
\* end conditions evaluated; with neither met and ships left to spawn,
\* criar_nave is called if the spawn interval has elapsed (the clock is not
\* modelled: it has or has not), else the frame is rendered.
MainCheck ==
  /\ main.pc = "check"
  /\ Free("mutex_estado")
  /\ \E due \in BOOLEAN :
       IF \/ LoseNow(naves_chegaram, naves_total)
          \/ AllHandled(naves_destruidas, naves_chegaram, naves_total)
         THEN /\ main' = [main EXCEPT !.pc = "set_over"]
              /\ UNCHANGED cn
       ELSE IF due /\ naves_spawned < naves_total
         THEN /\ main' = [main EXCEPT !.pc = "criar_nave"]
              /\ cn' = [cn EXCEPT !["main"] = Call]
       ELSE /\ main' = [main EXCEPT !.pc = "r_naves"]
            /\ UNCHANGED cn
  /\ UNCHANGED <<mutex, game_over, navesVars, foguetesVars, lancadores,
                 estadoVars, s_expl, envVars, input, art, naveT, fogT, histVars>>

\* Lines 44-48, under mutex_estado: game_over is stored, cond_game_over (no
\* task waits on it) broadcast, and the loop left.
MainSetOver ==
  /\ main.pc = "set_over"
  /\ Free("mutex_estado")
  /\ game_over' = TRUE
  /\ main' = [main EXCEPT !.pc = "fin_set"]
  /\ UNCHANGED <<cn, mutex, navesVars, foguetesVars, lancadores, estadoVars,
                 s_expl, envVars, input, art, naveT, fogT, histVars>>

\* Lines 61-62: back from criar_nave, the spawn clock is restarted.
MainSpawned ==
  /\ main.pc = "criar_nave"
  /\ cn["main"].pc = "ret"
  /\ main' = [main EXCEPT !.pc = "r_naves"]
  /\ cn' = [cn EXCEPT !["main"] = NoCall]
  /\ UNCHANGED <<mutex, game_over, navesVars, foguetesVars, lancadores,
                 estadoVars, s_expl, envVars, input, art, naveT, fogT, histVars>>

\* Lines 67 and 26: usleep(33000), then the loop head reads game_over.
MainSleep ==
  /\ main.pc = "sleep"
  /\ main' = [main EXCEPT !.pc = IF game_over THEN "fin_set" ELSE "check"]
  /\ UNCHANGED <<cn, mutex, game_over, navesVars, foguetesVars, lancadores,
                 estadoVars, s_expl, envVars, input, art, naveT, fogT, histVars>>

(* ------------------------------ render_game --------------------------- *)
\* render.c lines 99-107: the ships are copied out under mutex_naves.
RenderShips ==
  /\ main.pc = "r_naves"
  /\ Free("mutex_naves")
  /\ main' = [main EXCEPT !.pc = "r_fog"]
  /\ UNCHANGED <<cn, mutex, game_over, navesVars, foguetesVars, lancadores,
                 estadoVars, s_expl, envVars, input, art, naveT, fogT, histVars>>

\* Lines 114-123: the rockets are copied out under mutex_foguetes.
RenderRockets ==
  /\ main.pc = "r_fog"
  /\ Free("mutex_foguetes")
  /\ main' = [main EXCEPT !.pc = "r_estado"]
  /\ UNCHANGED <<cn, mutex, game_over, navesVars, foguetesVars, lancadores,
                 estadoVars, s_expl, envVars, input, art, naveT, fogT, histVars>>

\* Lines 129-136: the metrics and the battery are copied out under
\* mutex_estado.
RenderMetrics ==
  /\ main.pc = "r_estado"
  /\ Free("mutex_estado")
  /\ main' = [main EXCEPT !.pc = "r_lock", !.sw = screen_width,
                          !.sh = screen_height]
  /\ UNCHANGED <<cn, mutex, game_over, navesVars, foguetesVars, lancadores,
                 estadoVars, s_expl, envVars, input, art, naveT, fogT, histVars>>

\* Line 139: pthread_mutex_lock(&mutex_render).
RenderLock ==
  /\ main.pc = "r_lock"
  /\ Free("mutex_render")
  /\ mutex' = [mutex EXCEPT !["mutex_render"] = "main"]
  /\ main' = [main EXCEPT !.pc = "r_resize"]
  /\ UNCHANGED <<cn, game_over, navesVars, foguetesVars, lancadores, estadoVars,
                 s_expl, envVars, input, art, naveT, fogT, histVars>>

\* Lines 141-144: getmaxyx, clamped from below.
RealW == IF term[1] < MIN_TERM_W THEN MIN_TERM_W ELSE term[1]
RealH == IF term[2] < MIN_TERM_H THEN MIN_TERM_H ELSE term[2]

\* A resize that leaves the battery where it was.
ReclampNone(bx, w) == bx

\* Line 155: if (bateria_x >= sw) bateria_x = sw - 1.
Reclamp(bx, w) == IF bx >= w THEN w - 1 ELSE bx

\* Lines 150-158: if the terminal's size is not the one copied out, the
\* metrics are written and the battery clamped, under mutex_estado (inside
\* mutex_render).
RenderResize ==
  /\ main.pc = "r_resize"
  /\ IF RealW # main.sw \/ RealH # main.sh
       THEN /\ Free("mutex_estado")
            /\ screen_width' = RealW
            /\ screen_height' = RealH
            /\ bateria_x' = Reclamp(bateria_x, RealW)
       ELSE UNCHANGED <<screen_width, screen_height, bateria_x>>
  /\ main' = [main EXCEPT !.pc = "r_marks", !.sw = 0, !.sh = 0]
  /\ UNCHANGED <<cn, mutex, game_over, navesVars, foguetesVars, lancadores,
                 scoreVars, naves_spawned, shots_fired, direcao_atual, s_expl,
                 envVars, input, art, naveT, fogT, histVars>>

\* Lines 228-239: the hit markers are drawn under s_expl_mtx (inside
\* mutex_render).
RenderMarks ==
  /\ main.pc = "r_marks"
  /\ Free("s_expl_mtx")
  /\ main' = [main EXCEPT !.pc = "r_hud"]
  /\ UNCHANGED <<cn, mutex, game_over, navesVars, foguetesVars, lancadores,
                 estadoVars, s_expl, envVars, input, art, naveT, fogT, histVars>>

\* A HUD copy that keeps mutex_estado for the drawing that follows it.
HudLocked == [mutex EXCEPT !["mutex_estado"] = "main"]

\* Line 255: mutex_estado is released before the HUD is drawn (lines 258-262).
HudUnlocked == mutex

\* Lines 245-255: the HUD counters are copied out under mutex_estado (inside
\* mutex_render).
RenderHud ==
  /\ main.pc = "r_hud"
  /\ Free("mutex_estado")
  /\ main' = [main EXCEPT !.pc = "r_bays"]
  /\ mutex' = HudUnlocked
  /\ UNCHANGED <<cn, game_over, navesVars, foguetesVars, lancadores,
                 estadoVars, s_expl, envVars, input, art, naveT, fogT, histVars>>

\* Lines 267-271: the loaded bays are counted under mutex_lancadores (inside
\* mutex_render).
RenderBays ==
  /\ main.pc = "r_bays"
  /\ Free("mutex_lancadores")
  /\ main' = [main EXCEPT !.pc = "r_present"]
  /\ UNCHANGED <<cn, mutex, game_over, navesVars, foguetesVars, lancadores,
                 estadoVars, s_expl, envVars, input, art, naveT, fogT, histVars>>

\* Lines 308-314: expl_update under s_expl_mtx, the frame is presented and
\* mutex_render released.
RenderPresent ==
  /\ main.pc = "r_present"
  /\ Free("s_expl_mtx")
  /\ s_expl' = expl_update(s_expl)
  /\ mutex' = [mutex EXCEPT !["mutex_render"] = "none"]
  /\ main' = [main EXCEPT !.pc = "sleep"]
  /\ UNCHANGED <<cn, game_over, navesVars, foguetesVars, lancadores, estadoVars,
                 envVars, input, art, naveT, fogT, histVars>>

\* render_game as one step (lines 93-315): a frame is rendered when no task
\* holds a mutex the frame takes; it resizes the metrics if the terminal's
\* size differs and ages the hit markers; what it copies out is drawn and
\* forgotten.
RenderFrame ==
  /\ main.pc = "r_naves"
  /\ \A m \in Mutexes : Free(m)
  /\ IF RealW # screen_width \/ RealH # screen_height
       THEN /\ screen_width' = RealW
            /\ screen_height' = RealH
            /\ bateria_x' = Reclamp(bateria_x, RealW)
       ELSE UNCHANGED <<screen_width, screen_height, bateria_x>>
  /\ s_expl' = expl_update(s_expl)
  /\ main' = [main EXCEPT !.pc = "sleep"]
  /\ UNCHANGED <<cn, mutex, game_over, navesVars, foguetesVars, lancadores,
                 scoreVars, naves_spawned, shots_fired, direcao_atual,
                 envVars, input, art, naveT, fogT, histVars>>

render_game ==
  \/ RenderShips \/ RenderRockets \/ RenderMetrics \/ RenderLock
  \/ RenderResize \/ RenderMarks \/ RenderHud \/ RenderBays \/ RenderPresent

thread_principal ==
  \/ MainLoop \/ MainCheck \/ MainSetOver \/ MainSpawned
  \/ MainSleep \/ criar_nave("main") \/ RenderFrame

\* thread_principal with render_game section by section.
thread_principal_sections ==
  \/ MainLoop \/ MainCheck \/ MainSetOver \/ MainSpawned
  \/ MainSleep \/ criar_nave("main") \/ render_game

(* --------------------------- finalizar_threads ------------------------ *)
\* game.c lines 208-211, under mutex_estado: game_over is stored and
\* cond_game_over (no task waits on it) broadcast.
FinSetOver ==
  /\ main.pc = "fin_set"
  /\ Free("mutex_estado")
  /\ game_over' = TRUE
  /\ main' = [main EXCEPT !.pc = "fin_wake"]
  /\ UNCHANGED <<cn, mutex, navesVars, foguetesVars, lancadores, estadoVars,
                 s_expl, envVars, input, art, naveT, fogT, histVars>>

\* Lines 214-216, under mutex_lancadores: cond_lancador_vazio is broadcast.
FinWake ==
  /\ main.pc = "fin_wake"
  /\ Free("mutex_lancadores")
  /\ art' = WakeReloader(art)
  /\ main' = [main EXCEPT !.pc = "fin_naves"]
  /\ UNCHANGED <<cn, mutex, game_over, navesVars, foguetesVars, lancadores,
                 estadoVars, s_expl, envVars, input, naveT, fogT, histVars>>

\* The handles stored in the alive slots of an entity array, in index order
\* (lines 221-225 and 231-235).
RECURSIVE AliveHandles(_, _, _)
AliveHandles(arr, i, n) ==
  IF i >= n THEN <<>>
  ELSE (IF arr[i].ativa THEN <<arr[i].thread_id>> ELSE <<>>)
       \o AliveHandles(arr, i + 1, n)

\* Lines 218-226, under mutex_naves: the handles of the alive ships.
FinCollectShips ==
  /\ main.pc = "fin_naves"
  /\ Free("mutex_naves")
  /\ main' = [main EXCEPT !.pc = "fin_fog",
                          !.nave_tids = AliveHandles(naves, 0, MAX_NAVES)]
  /\ UNCHANGED <<cn, mutex, game_over, navesVars, foguetesVars, lancadores,
                 estadoVars, s_expl, envVars, input, art, naveT, fogT, histVars>>

\* Lines 228-236, under mutex_foguetes: the handles of the alive rockets.
FinCollectRockets ==
  /\ main.pc = "fin_fog"
  /\ Free("mutex_foguetes")
  /\ main' = [main EXCEPT !.pc = "fin_join_n",
                !.foguete_tids = AliveHandles(foguetes, 0, MAX_FOGUETES)]
  /\ UNCHANGED <<cn, mutex, game_over, navesVars, foguetesVars, lancadores,
                 estadoVars, s_expl, envVars, input, art, naveT, fogT, histVars>>

\* pthread_join on a handle of a task array: a task that has returned is
\* joined; a running one blocks the caller; a handle that names no joinable
\* task (never stored, or joined before) is undefined behaviour.
Joinable(tasks, h) == h \in DOMAIN tasks /\ tasks[h].pc = "exited"
Running(tasks, h) ==
  h \in DOMAIN tasks /\ tasks[h].pc \notin {"unborn", "exited", "joined"}
InvalidHandle(tasks, h) == ~Joinable(tasks, h) /\ ~Running(tasks, h)

\* Line 238: the collected ship handles are joined in order.  An invalid
\* handle either makes pthread_join fail and return, or ends the process.
FinJoinShips ==
  /\ main.pc = "fin_join_n"
  /\ IF main.nave_tids = <<>>
       THEN /\ main' = [main EXCEPT !.pc = "fin_join_f"]
            /\ UNCHANGED naveT
       ELSE LET h == Head(main.nave_tids) IN
            \/ /\ Joinable(naveT, h)
               /\ naveT' = [naveT EXCEPT ![h].pc = "joined"]
               /\ main' = [main EXCEPT !.nave_tids = Tail(@)]
            \/ /\ InvalidHandle(naveT, h)
               /\ UNCHANGED naveT
               /\ \/ main' = [main EXCEPT !.nave_tids = Tail(@)]
                  \/ main' = [main EXCEPT !.pc = "crashed"]
  /\ UNCHANGED <<cn, mutex, game_over, navesVars, foguetesVars, lancadores,
                 estadoVars, s_expl, envVars, input, art, fogT, histVars>>

\* Line 239: the collected rocket handles are joined in order.
FinJoinRockets ==
  /\ main.pc = "fin_join_f"
  /\ IF main.foguete_tids = <<>>
       THEN /\ main' = [main EXCEPT !.pc = "fin_join_input"]
            /\ UNCHANGED fogT
       ELSE LET h == Head(main.foguete_tids) IN
            \/ /\ Joinable(fogT, h)
               /\ fogT' = [fogT EXCEPT ![h].pc = "joined"]
               /\ main' = [main EXCEPT !.foguete_tids = Tail(@)]
            \/ /\ InvalidHandle(fogT, h)
               /\ UNCHANGED fogT
               /\ \/ main' = [main EXCEPT !.foguete_tids = Tail(@)]
                  \/ main' = [main EXCEPT !.pc = "crashed"]
  /\ UNCHANGED <<cn, mutex, game_over, navesVars, foguetesVars, lancadores,
                 estadoVars, s_expl, envVars, input, art, naveT, histVars>>

\* Line 241: pthread_join(thread_input).
FinJoinInput ==
  /\ main.pc = "fin_join_input"
  /\ input.pc = "exited"
  /\ input' = [input EXCEPT !.pc = "joined"]
  /\ main' = [main EXCEPT !.pc = "fin_join_art"]
  /\ UNCHANGED <<cn, mutex, game_over, navesVars, foguetesVars, lancadores,
                 estadoVars, s_expl, envVars, art, naveT, fogT, histVars>>

\* Line 242: pthread_join(thread_artilheiro); finalizar_threads returns.
FinJoinReloader ==
  /\ main.pc = "fin_join_art"
  /\ art.pc = "exited"
  /\ art' = [art EXCEPT !.pc = "joined"]
  /\ main' = [main EXCEPT !.pc = "returned"]
  /\ UNCHANGED <<cn, mutex, game_over, navesVars, foguetesVars, lancadores,
                 estadoVars, s_expl, envVars, input, naveT, fogT, histVars>>

finalizar_threads ==
  \/ FinSetOver \/ FinWake \/ FinCollectShips \/ FinCollectRockets
  \/ FinJoinShips \/ FinJoinRockets \/ FinJoinInput \/ FinJoinReloader

\* main.c lines 52-53: render_cleanup and game_cleanup, which destroys the
\* five game mutexes; main() then prints the report and the process exits.
GameCleanup ==
  /\ main.pc = "returned"
  /\ main' = [main EXCEPT !.pc = "done"]
  /\ UNCHANGED <<cn, mutex, game_over, navesVars, foguetesVars, lancadores,
                 estadoVars, s_expl, envVars, input, art, naveT, fogT, histVars>>

(* ------------------------------ the program --------------------------- *)
\* game_init (game.c lines 27-75) and main() up to thread_principal: zeroed
\* state, default metrics, unloaded bays; the input reader and the reloader
\* are running.  The run's difficulty and environment are its inputs.
Start(dificuldade, size, e) ==
  /\ mutex = [m \in Mutexes |-> "none"]
  /\ game_over = FALSE
  /\ naves = [i \in NaveSlots |->
       [x |-> 0, y |-> 0, ativa |-> FALSE, destruida |-> FALSE,
        thread_id |-> 0]]
  /\ num_naves_ativas = 0
  /\ foguetes = [i \in FogSlots |->
       [x |-> 0, y |-> 0, dx |-> 0, dy |-> 0, direcao |-> DIR_VERTICAL,
        lancador_id |-> 0, ativa |-> FALSE, thread_id |-> 0]]
  /\ num_foguetes_ativos = 0
  /\ lancadores = [i \in BaySlots |->
       [tem_foguete |-> FALSE, direcao |-> DIR_VERTICAL]]
  /\ pontuacao = 0 /\ naves_destruidas = 0 /\ naves_chegaram = 0
  /\ naves_spawned = 0 /\ shots_fired = 0 /\ shots_hit = 0
  /\ current_streak = 0 /\ best_streak = 0
  /\ screen_width = DEF_W /\ screen_height = DEF_H
  /\ bateria_x = DEF_W \div 2
  /\ direcao_atual = DIR_VERTICAL
  /\ s_expl = <<>>
  /\ term = size
  /\ cfg = DIFFS[dificuldade]
  /\ env = e
  /\ main = [pc |-> "loop", sw |-> 0, sh |-> 0,
             nave_tids |-> <<>>, foguete_tids |-> <<>>]
  /\ cn = [c \in Callers |-> NoCall]
  /\ input = Idle
  /\ art = [pc |-> "loop", i |-> 0, dir |-> 0, saw_over |-> FALSE]
  /\ naveT = [k \in NaveTasks |-> NoTask]
  /\ fogT = [k \in FogTasks |-> NoFog]
  /\ occId = [i \in NaveSlots |-> 0]
  /\ destroyEvents = [o \in Occupancies |-> 0]
  /\ groundEvents = [o \in Occupancies |-> 0]

\* The runs explored: a difficulty, the keys the user presses, the rockets
\* the user launches at most, and whether the system may refuse memory or a
\* thread.
Run(d, size, keys, shots, faults) ==
  [d |-> d, size |-> size,
   e |-> [keys |-> keys, shots |-> shots, faults |-> faults]]
Runs == {Run(1, <<TermW, TermH>>, {" ", "x"}, 1, TRUE),
         Run(2, <<TermW, TermH>>, {"a", "x"}, 0, TRUE)}

Init == \E r \in Runs : Start(r.d, r.size, r.e)

\* The program: a frame of render_game is one step.
Next ==
  \/ thread_principal
  \/ finalizar_threads
  \/ GameCleanup
  \/ thread_input
  \/ thread_artilheiro
  \/ ArtSpuriousWakeup
  \/ \E k \in NaveTasks : thread_nave(k)
  \/ \E k \in FogTasks : thread_foguete(k)

Spec == Init /\ [][Next]_vars

\* The program with render_game section by section, every acquisition of
\* mutex_render and of the mutexes taken inside it a step.
NextSections ==
  \/ thread_principal_sections
  \/ finalizar_threads
  \/ GameCleanup
  \/ thread_input
  \/ thread_artilheiro
  \/ ArtSpuriousWakeup
  \/ \E k \in NaveTasks : thread_nave(k)
  \/ \E k \in FogTasks : thread_foguete(k)

SpecSections == Init /\ [][NextSections]_vars

\* A second task that calls criar_nave whenever it likes, which the program
\* does not have.
OtherCall ==
  /\ ProcessAlive
  /\ cn["other"].pc = "idle"
  /\ cn' = [cn EXCEPT !["other"] = Call]
  /\ UNCHANGED <<mutex, game_over, navesVars, foguetesVars, lancadores,
                 estadoVars, s_expl, envVars, main, input, art, naveT, fogT,
                 histVars>>

OtherReturn ==
  /\ ProcessAlive
  /\ cn["other"].pc = "ret"
  /\ cn' = [cn EXCEPT !["other"] = NoCall]
  /\ UNCHANGED <<mutex, game_over, navesVars, foguetesVars, lancadores,
                 estadoVars, s_expl, envVars, main, input, art, naveT, fogT,
                 histVars>>

\* The spawn path with two concurrent callers of criar_nave: the
\* orchestrator's loop and the second caller; no other task is scheduled.
NextTwoCallers ==
  \/ MainLoop \/ MainCheck \/ MainSpawned \/ RenderFrame \/ MainSleep
  \/ criar_nave("main")
  \/ OtherCall \/ OtherReturn \/ criar_nave("other")

SpecTwoCallers == Init /\ [][NextTwoCallers]_vars

(* ----------------------------- fire and reload ------------------------- *)
\* The fire path on its own: the input reader (with tentar_disparar), the
\* reloader and the rockets, in the runs in which thread_principal has not
\* yet been given the processor (no ship is on screen).  The user presses
\* fire as long as fewer than MaxShots rockets were counted, and may quit.
InitFire == Start(1, <<TermW, TermH>>,
                  [keys |-> {" ", "x"}, shots |-> MaxShots, faults |-> TRUE])

\* A rocket's steps with no ship in any slot (a hit needs an alive ship).
rocket_alone(k) ==
  \/ FogStart(k) \/ FogLoop(k) \/ FogMove(k) \/ FogMetrics(k) \/ FogBounds(k)
  \/ FogOut(k) \/ FogScan(k) \/ FogSleep(k) \/ FogExit(k)

NextFire ==
  \/ thread_input
  \/ thread_artilheiro
  \/ ArtSpuriousWakeup
  \/ \E k \in FogTasks : rocket_alone(k)

\* Each task that can take a step is eventually given the processor.
FairFire ==
  /\ WF_vars(thread_input)
  /\ WF_vars(thread_artilheiro)
  /\ \A k \in FogTasks : WF_vars(rocket_alone(k))

SpecFire == InitFire /\ [][NextFire]_vars /\ FairFire

\* The fire path on the hardest level, which has two launch bays: the user
\* turns the aim, fires twice and may quit.
InitBays == Start(3, <<TermW, TermH>>,
                  [keys |-> {" ", "q", "x"}, shots |-> 2, faults |-> TRUE])

SpecBays == InitBays /\ [][NextFire]_vars

(* ------------------------------ the end of a run ----------------------- *)
\* The orchestrator and the ships on the hardest level, up to the moment
\* thread_principal returns: the user presses no key and the input reader
\* and the reloader, which touch neither ships nor counters, are left out.
InitEscape == Start(3, <<TermW, TermH>>,
                    [keys |-> {}, shots |-> 0, faults |-> TRUE])

\* A ship's steps with no rocket in any slot (a hit needs an alive rocket).
ship_alone(k) ==
  \/ NaveLoop(k) \/ NaveMove(k) \/ NaveMetrics(k) \/ NaveGround(k)
  \/ NaveGroundScore(k) \/ NaveScan(k) \/ NaveSleep(k) \/ NaveExit(k)

NextEscape ==
  \/ thread_principal
  \/ \E k \in NaveTasks : ship_alone(k)

\* The orchestrator and every ship task are eventually given the processor.
FairEscape ==
  /\ WF_vars(thread_principal)
  /\ \A k \in NaveTasks : WF_vars(ship_alone(k))

SpecEscape == InitEscape /\ [][NextEscape]_vars /\ FairEscape

(* ------------------------------ properties ---------------------------- *)
\* C1: for every occupancy of a ship slot the destroy scoring block runs at
\* most once, whichever of the ship's task and the rocket tasks detect the
\* collision.
C1_DestroyScoredOnce == \A o \in Occupancies : destroyEvents[o] <= 1

\* A ship task that detected a collision stands at the destroyed gate of a
\* slot a rocket task has flipped and scored for already.
C1_Witness ==
  \E k \in NaveTasks :
    /\ naveT[k].pc = "gate"
    /\ ~naves[naveT[k].slot].ativa
    /\ occId[naveT[k].slot] > 0
    /\ destroyEvents[occId[naveT[k].slot]] = 1

\* C2: naves_destruidas + naves_chegaram <= naves_total in every state.
C2_HandledWithinTotal == naves_destruidas + naves_chegaram <= naves_total

\* Every ship of the level has been counted, one of them as destroyed.
C2_Witness ==
  /\ naves_destruidas + naves_chegaram = naves_total
  /\ naves_destruidas >= 1

\* C3: with thread_principal the only caller of criar_nave,
\* naves_spawned <= naves_total and
\* naves_destruidas + naves_chegaram <= naves_spawned in every state.
C3_SpawnedBounds ==
  /\ naves_spawned <= naves_total
  /\ naves_destruidas + naves_chegaram <= naves_spawned

\* C4: no occupancy of a ship slot is counted both as escaped and as
\* destroyed; each adds at most 1 to naves_destruidas + naves_chegaram.
C4_OneOutcome ==
  \A o \in Occupancies : destroyEvents[o] + groundEvents[o] <= 1

\* A ship task that reached the ground line stands at the grounded gate of a
\* slot a rocket task has flipped in the meantime.
C4_Witness ==
  \E k \in NaveTasks :
    /\ naveT[k].pc = "ground"
    /\ ~naves[naveT[k].slot].ativa
    /\ naves[naveT[k].slot].destruida

\* C5: when pthread_create fails in criar_nave, naves_spawned after the call
\* is what it was before the call.
C5_SpawnedRestored ==
  \A c \in Callers :
    (cn[c].pc = "ret" /\ cn[c].result = "create_failed")
      => naves_spawned = cn[c].spawned0

\* C6: when the ship task cannot be started in criar_nave (malloc or
\* pthread_create fails), the slot is not alive after the call.
C6_SlotGivenBack ==
  \A c \in Callers :
    (cn[c].pc = "ret" /\ cn[c].result \in {"malloc_failed", "create_failed"})
      => ~naves[cn[c].idx].ativa

\* C7: criar_nave reserves before it commits, so that with two concurrent
\* callers naves_spawned never exceeds naves_total.
C7_SpawnedWithinTotal == naves_spawned <= naves_total

\* C8: when finalizar_threads has returned, every ship task and rocket task
\* ever started, the input reader and the reloader have exited and been
\* joined.
C8_AllJoined ==
  main.pc \in {"returned", "done"} =>
    /\ \A k \in NaveTasks : naveT[k].pc \in {"unborn", "joined"}
    /\ \A k \in FogTasks : fogT[k].pc \in {"unborn", "joined"}
    /\ input.pc = "joined"
    /\ art.pc = "joined"

\* C9: once game_over is set finalizar_threads returns.  In finite form:
\* from the moment the flag is set until finalizar_threads has returned,
\* some task can always take a step (no lost wake-up, no join that never
\* ends, no process ended inside finalizar_threads).
C9_ShutdownNeverStuck ==
  game_over => (main.pc \in {"returned", "done"} \/ ENABLED Next)

\* The mutex a caller of criar_nave needs for its next step.
CallerWants(c) ==
  CASE cn[c].pc \in {"check", "init", "inc"} -> "mutex_estado"
    [] cn[c].pc \in {"lock", "rollback"} -> "mutex_naves"
    [] OTHER -> "none"

\* The mutex each task that can hold one needs for its next step ("none":
\* its next step takes no mutex, or it has no next step).
Wants(t) ==
  CASE t = "main" ->
         (CASE main.pc = "criar_nave" -> CallerWants("main")
            [] main.pc \in {"check", "set_over", "fin_set", "r_estado",
                            "r_hud"} -> "mutex_estado"
            [] main.pc = "r_resize" ->
                 IF RealW # main.sw \/ RealH # main.sh THEN "mutex_estado"
                                                        ELSE "none"
            [] main.pc \in {"r_naves", "fin_naves"} -> "mutex_naves"
            [] main.pc \in {"r_fog", "fin_fog"} -> "mutex_foguetes"
            [] main.pc = "r_lock" -> "mutex_render"
            [] main.pc \in {"r_marks", "r_present"} -> "s_expl_mtx"
            [] main.pc \in {"r_bays", "fin_wake"} -> "mutex_lancadores"
            [] OTHER -> "none")
    [] t = "input" ->
         (CASE input.pc = "getch" -> "mutex_render"
            [] input.pc \in {"process", "td_fill", "td_count"} -> "mutex_estado"
            [] input.pc = "td_lock_l" -> "mutex_lancadores"
            [] input.pc \in {"td_lock_f", "td_rollback"} -> "mutex_foguetes"
            [] OTHER -> "none")
    [] t = "art" ->
         (CASE art.pc \in {"lock", "reload", "woken"} -> "mutex_lancadores"
            [] art.pc = "scan" ->
                 IF EmptyBays # {} THEN "mutex_estado" ELSE "none"
            [] OTHER -> "none")
    [] OTHER -> CallerWants(t)

\* The task needs a mutex that a task holds.
Blocked(t) == Wants(t) # "none" /\ ~Free(Wants(t))

\* C10: in no state is there a set of tasks each blocked on a mutex that a
\* task of the set holds.  (A ship or rocket task holds no mutex while it is
\* blocked, so it is in no such set.)
C10_NoCircularWait ==
  \A S \in (SUBSET Holders) \ {{}} :
    \E t \in S : ~(Blocked(t) /\ mutex[Wants(t)] \in S)

\* A task that holds a mutex is blocked on one that another task holds.
C10_Witness ==
  \E t \in Holders :
    /\ Blocked(t)
    /\ mutex[Wants(t)] # t
    /\ \E m \in Mutexes : mutex[m] = t

\* The four mutexes that guard game state (ships, rockets, bays, run state
\* and viewport); mutex_render and s_expl_mtx guard the presentation.
StateLocks == {"mutex_naves", "mutex_foguetes", "mutex_lancadores", "mutex_estado"}

\* Task t holds mutex a and its next step takes mutex b, which is free: the
\* step runs with both held.
TakesWhileHolding(t, a, b) == mutex[a] = t /\ Wants(t) = b /\ Free(b)

\* The input reader is inside tentar_disparar.
InFireAction(t) ==
  t = "input" /\ input.pc \in {"td_lock_l", "td_lock_f", "td_fill", "td_count"}

\* C11: apart from the fire action, no task takes a state mutex while it
\* holds another state mutex.
C11_OnlyFireNests ==
  \A t \in Holders : \A a \in StateLocks : \A b \in StateLocks :
    TakesWhileHolding(t, a, b) => InFireAction(t)

\* CODE_ANALYSIS.md lines 2002-2007: the documented lock order.
LockRank(m) ==
  CASE m = "mutex_estado" -> 1
    [] m = "mutex_naves" -> 2
    [] m = "mutex_foguetes" -> 3
    [] m = "mutex_lancadores" -> 4
    [] m = "mutex_render" -> 5
    [] OTHER -> 6

\* C12: a task that holds a mutex only takes mutexes that come later in the
\* documented order mutex_estado, mutex_naves, mutex_foguetes,
\* mutex_lancadores, mutex_render.
C12_DocumentedOrder ==
  \A t \in Holders : \A a \in Mutexes \ {"s_expl_mtx"} :
    \A b \in Mutexes \ {"s_expl_mtx"} :
      TakesWhileHolding(t, a, b) => LockRank(a) < LockRank(b)

\* C13: game_over is monotone: no step takes it from true to false.
C13_FlagMonotone == [][game_over => game_over']_vars

\* The flag is set, finalizar_threads has stored it again, and
\* process_input is about to handle a key that is not a quit key.
C13_Witness ==
  game_over /\ main.pc = "fin_wake" /\ input.pc = "process" /\ input.key = "a"

\* C14: with one launch bay, whenever the bay is unloaded it is eventually
\* loaded again, unless the run ends first.
C14_BayReloaded ==
  (~lancadores[0].tem_foguete /\ ~game_over)
    ~> (lancadores[0].tem_foguete \/ game_over)

\* The bay is loaded again after every shot of the run emptied it.
C14_Witness ==
  shots_fired = MaxShots /\ lancadores[0].tem_foguete /\ ~game_over

\* Task t is inside a usleep, a pthread_cond_wait or a pthread_join.
Asleep(t) ==
  CASE t = "main" -> main.pc \in {"sleep", "fin_join_n", "fin_join_f",
                                  "fin_join_input", "fin_join_art"}
    [] t = "input" -> input.pc = "sleep"
    [] t = "art" -> art.pc \in {"sleep", "waiting"}
    [] OTHER -> FALSE

\* C15: a task inside a sleep or a blocking wait holds no mutex; the
\* reloader's condition wait has released mutex_lancadores.  (Ship and rocket
\* tasks hold a mutex only inside a single step, never at their usleep.)
C15_NoLockAsleep ==
  \A t \in Holders : Asleep(t) => \A m \in Mutexes : mutex[m] # t

\* The reloader is in its reload sleep while a fire attempt is about to
\* take mutex_lancadores, which is free.
C15_Witness ==
  art.pc = "sleep" /\ input.pc = "td_lock_l" /\ Free("mutex_lancadores")

\* The step changes data of the region that mutex m guards (game.h lines
\* 64-99: the "guarded by" comments of GameState).
RegionWritten(m) ==
  CASE m = "mutex_naves" -> <<naves, num_naves_ativas>>' # <<naves, num_naves_ativas>>
    [] m = "mutex_foguetes" -> foguetesVars' # foguetesVars
    [] m = "mutex_lancadores" -> lancadores' # lancadores
    [] m = "mutex_estado" -> estadoVars' # estadoVars
    [] OTHER -> FALSE

\* The step is a step of task t.
StepOf(t) ==
  CASE t = "main" -> main' # main \/ cn'["main"] # cn["main"]
    [] t = "input" -> input' # input
    [] t = "art" -> art' # art
    [] t = "other" -> cn'["other"] # cn["other"]
    [] OTHER -> FALSE

\* C16: region data is accessed only by a task that holds the region's
\* mutex.  In observable form: while a task holds a region's mutex, no step
\* of another task writes that region's data.
C16_WritesUnderLock ==
  [][\A m \in StateLocks :
       (RegionWritten(m) /\ ~Free(m)) => StepOf(mutex[m])]_vars

\* A task that was started and has not returned.
Live(task) == task.pc \notin {"unborn", "exited", "joined"}

\* C17: a slot is taken by a new occupant only after the task of the
\* previous occupant has returned: no two live ship tasks and no two live
\* rocket tasks have the same slot.
C17_OneTaskPerSlot ==
  /\ \A j, k \in NaveTasks :
       (j # k /\ Live(naveT[j]) /\ Live(naveT[k])) => naveT[j].slot # naveT[k].slot
  /\ \A j, k \in FogTasks :
       (j # k /\ Live(fogT[j]) /\ Live(fogT[k])) => fogT[j].slot # fogT[k].slot

\* C18: a fire attempt whose search for a loaded bay or for a free rocket
\* slot fails returns false with no mutex held, and the steps of the attempt
\* up to there change none of shots_fired, the bays, the rocket slots and
\* num_foguetes_ativos.
C18_FailedSearchNoEffect ==
  [][(input.pc \in {"td_lock_l", "td_lock_f"} /\ input' # input) =>
       /\ UNCHANGED <<shots_fired, lancadores, foguetes, num_foguetes_ativos>>
       /\ input'.pc = "sleep" =>
            /\ input'.fired = "false"
            /\ \A m \in Mutexes : mutex'[m] # "input"]_vars

\* A fire attempt has just returned false with a loaded bay and no free
\* rocket slot, and shots_fired is what it was at the call.
C18_Witness ==
  /\ input.pc = "sleep" /\ input.fired = "false" /\ input.fi = -1
  /\ LoadedBays # {} /\ FreeFogSlots = {}
  /\ shots_fired = input.shots0

\* C19: tentar_disparar returns true exactly when it started a rocket task,
\* and the call has added one to shots_fired exactly when it returns true.
C19_CountedIffLaunched ==
  /\ [][(input'.fired = "true" /\ input.fired # "true") => fogT' # fogT]_vars
  /\ []((input.pc = "sleep" /\ input.fired # "none") =>
          /\ shots_fired \in {input.shots0, input.shots0 + 1}
          /\ (input.fired = "true") <=> (shots_fired = input.shots0 + 1))

\* C20: a rocket that found itself outside the play area marks itself not
\* alive and returns, and none of its steps from there on changes pontuacao,
\* naves_destruidas, naves_chegaram, shots_fired, shots_hit, current_streak
\* or best_streak.
C20_OutOfBoundsNoScore ==
  [][\A k \in FogTasks :
       /\ (fogT[k].pc = "out" /\ fogT'[k] # fogT[k]) =>
            /\ ~foguetes'[fogT[k].slot].ativa
            /\ fogT'[k].pc = "exit"
            /\ UNCHANGED <<scoreVars, shots_fired>>
       /\ (fogT[k].pc = "exit" /\ fogT'[k] # fogT[k]) =>
            /\ fogT'[k].pc = "exited"
            /\ UNCHANGED <<scoreVars, shots_fired>>]_vars

\* A rocket is on its exit path in a run in which no ship was ever made:
\* it left the play area.
C20_Witness ==
  /\ \E k \in FogTasks : fogT[k].pc = "exit" /\ ~foguetes[fogT[k].slot].ativa
  /\ naves_spawned = 0 /\ \A i \in NaveSlots : occId[i] = 0
  /\ ~game_over

\* More than half of the level's ships have landed (integer division).
MoreThanHalfEscaped == naves_chegaram > naves_total \div 2

\* C21: once naves_chegaram > naves_total / 2, the orchestrator's next
\* end-condition check leads to the store of game_over, however many ships
\* are unspawned or on their way; so more than half escaped leads to
\* game_over.
C21_DefeatEndsRun ==
  /\ [][(main.pc = "check" /\ main' # main /\ MoreThanHalfEscaped) =>
          main'.pc = "set_over"]_vars
  /\ [][(main.pc = "set_over" /\ main' # main) => game_over']_vars
  /\ (MoreThanHalfEscaped ~> game_over)

\* The flag is set with more than half of the ships landed and a ship of
\* the level still unhandled.
C21_Witness ==
  /\ game_over
  /\ MoreThanHalfEscaped
  /\ naves_destruidas + naves_chegaram < naves_total

\* render_game is between two of its sections with mutex_render held: the
\* pad is erased, drawn on or presented here (render.c lines 146-147, 162-226,
\* 258-262, 273-305, 311-312).
Drawing == main.pc \in {"r_resize", "r_marks", "r_hud", "r_bays", "r_present"}

\* C22: the renderer holds none of mutex_naves, mutex_foguetes, mutex_estado,
\* mutex_lancadores while it draws, and no task takes mutex_render while it
\* holds one of them.
C22_NoDrawUnderStateLock ==
  /\ Drawing => \A m \in StateLocks : mutex[m] # "main"
  /\ \A t \in Holders : \A a \in StateLocks :
       ~TakesWhileHolding(t, a, "mutex_render")

\* The renderer draws the HUD it has just copied out while a fire attempt
\* holds mutex_lancadores and mutex_foguetes.
C22_Witness ==
  /\ main.pc = "r_bays" /\ mutex["mutex_render"] = "main"
  /\ input.pc = "td_fill"

\* C23: everything a frame needs is copied out before mutex_render is
\* taken: no task takes one of mutex_naves, mutex_foguetes, mutex_estado,
\* mutex_lancadores while it holds mutex_render.
C23_NoStateLockInsideRender ==
  \A t \in Holders : \A b \in StateLocks :
    ~TakesWhileHolding(t, "mutex_render", b)

\* Rocket task k executes an unconditional f->ativa = false (threads.c lines
\* 201 and 229) on a slot that is already not alive.
RocketRewrite(k) ==
  /\ fogT[k].pc \in {"out", "self_mark"}
  /\ fogT'[k] # fogT[k]
  /\ ~foguetes[fogT[k].slot].ativa

\* Ship task k passes one of its gates (threads.c lines 107-112 and 141-147)
\* on a slot that is already not alive.
ShipRegate(k) ==
  /\ naveT[k].pc \in {"ground", "gate"}
  /\ naveT'[k] # naveT[k]
  /\ ~naves[naveT[k].slot].ativa

\* C24: a task that finds a slot already not alive when it comes to mark
\* it not alive leaves the slot as it is, changes no counter of the run
\* state and records no scoring event; a ship task in that case leaves
\* without entering a scoring block.
C24_IdempotentReap ==
  [][/\ \A k \in FogTasks :
          RocketRewrite(k) =>
            /\ foguetes' = foguetes
            /\ UNCHANGED <<scoreVars, naves_spawned, shots_fired, histVars>>
     /\ \A k \in NaveTasks :
          ShipRegate(k) =>
            /\ naves' = naves
            /\ naveT'[k].pc = "exit"
            /\ UNCHANGED <<scoreVars, naves_spawned, shots_fired, histVars>>]_vars

\* A rocket that flipped a ship is about to mark itself not alive, and a
\* ship task has marked it already.
C24_Witness ==
  \E k \in FogTasks :
    /\ fogT[k].pc = "self_mark"
    /\ ~foguetes[fogT[k].slot].ativa
    /\ \E j \in NaveTasks : naveT[j].pc = "gate"

\* C25: at entry to tentar_disparar the calling task holds no mutex:
\* process_input has released mutex_estado before the call.
C25_FireCalledLockFree ==
  input.pc = "td_lock_l" => \A m \in Mutexes : mutex[m] # "input"

\* tentar_disparar has been entered while the reloader holds
\* mutex_lancadores, the first mutex the call needs.
C25_Witness ==
  /\ input.pc = "td_lock_l"
  /\ mutex["mutex_lancadores"] = "art"
  /\ input.shots0 = shots_fired

\* C26: a fire attempt whose two searches succeed works on the bays and
\* the rocket slots under mutex_lancadores and mutex_foguetes: it picks the
\* lowest loaded bay and the lowest free slot; holding both mutexes it
\* unloads that bay and no other, activates that slot and no other with the
\* aim direction, the clamped battery column and the ground line as they
\* are then, adds 1 to num_foguetes_ativos, wakes the waiting reloader and
\* adds 1 to shots_fired; and a rocket task is started only by the caller
\* with no mutex held, on the slot that was activated.
C26_FireAtomic ==
  [][/\ (input.pc = "td_lock_l" /\ input'.pc = "td_lock_f") =>
          /\ lancadores[input'.li].tem_foguete
          /\ \A j \in Bays : j < input'.li => ~lancadores[j].tem_foguete
     /\ (input.pc = "td_lock_f" /\ input'.pc = "td_fill") =>
          /\ ~foguetes[input'.fi].ativa
          /\ \A j \in FogSlots : j < input'.fi => foguetes[j].ativa
     /\ (input.pc = "td_fill" /\ input'.pc = "td_count") =>
          /\ mutex["mutex_lancadores"] = "input"
          /\ mutex["mutex_foguetes"] = "input"
          /\ lancadores[input.li].tem_foguete
          /\ \A j \in Bays : lancadores'[j].tem_foguete
                               <=> (lancadores[j].tem_foguete /\ j # input.li)
          /\ ~foguetes[input.fi].ativa /\ foguetes'[input.fi].ativa
          /\ \A j \in FogSlots : j # input.fi => foguetes'[j] = foguetes[j]
          /\ foguetes'[input.fi].direcao = direcao_atual
          /\ foguetes'[input.fi].x =
               (IF bateria_x < 0 THEN 0
                ELSE IF bateria_x >= screen_width THEN screen_width - 1
                ELSE bateria_x)
          /\ foguetes'[input.fi].y = screen_height - CTRL_H - 1
          /\ num_foguetes_ativos' = num_foguetes_ativos + 1
          /\ art.pc = "waiting" => art'.pc = "woken"
     /\ (input.pc = "td_count" /\ input'.pc = "td_create") =>
          /\ mutex["mutex_lancadores"] = "input"
          /\ mutex["mutex_foguetes"] = "input"
          /\ shots_fired' = shots_fired + 1
          /\ \A m \in Mutexes : mutex'[m] # "input"
     /\ \A k \in FogTasks :
          (fogT[k].pc = "unborn" /\ fogT'[k].pc # "unborn") =>
            /\ input.pc = "td_create"
            /\ \A m \in Mutexes : mutex[m] # "input"
            /\ fogT'[k].slot = input.fi]_vars

\* With both bays loaded and the first rocket in flight, a second shot in
\* a turned direction took bay 0 and slot 1 and is about to start its task.
C26_Witness ==
  /\ input.pc = "td_create" /\ input.li = 0 /\ input.fi = 1
  /\ lancadores[1].tem_foguete /\ ~lancadores[0].tem_foguete
  /\ foguetes[0].ativa
  /\ foguetes[1].direcao = DIR_DIAGONAL_ESQ

\* C27: the reloader goes into pthread_cond_wait only from a critical
\* section of mutex_lancadores in which it saw every bay loaded; it is never
\* in the wait while a bay is unloaded (the signal of the shot that unloads
\* a bay reaches it); and when the wait returns with every bay loaded and
\* the run going on, it waits again and loads nothing.
C27_WaitOnlyWhenLoaded ==
  /\ [](art.pc = "waiting" => EmptyBays = {})
  /\ [][/\ (art'.pc = "waiting" /\ art.pc # "waiting") =>
             /\ EmptyBays = {}
             /\ \/ art.pc = "scan" /\ mutex["mutex_lancadores"] = "art"
                \/ art.pc = "woken" /\ Free("mutex_lancadores")
        /\ (art.pc = "woken" /\ art' # art /\ EmptyBays = {} /\ ~game_over) =>
             /\ art'.pc = "waiting"
             /\ lancadores' = lancadores]_vars

\* The wait has returned with no signal: both bays are loaded, the run
\* goes on, and a shot has been fired and reloaded before.
C27_Witness ==
  /\ art.pc = "woken" /\ EmptyBays = {} /\ ~game_over
  /\ num_lancadores = 2 /\ shots_fired >= 1

\* C28: a bay goes from unloaded to loaded only in the reloader's step
\* after its reload sleep, with mutex_lancadores taken again, game_over
\* false, and the direction captured before the sleep stored in the bay;
\* a reloader that has read game_over as true is at its loop head or has
\* returned, and no bay is loaded from then on.
C28_LoadOnlyWhileRunning ==
  /\ [](art.saw_over => art.pc \in {"loop", "exited", "joined"})
  /\ [][\A i \in BaySlots :
          (~lancadores[i].tem_foguete /\ lancadores'[i].tem_foguete) =>
            /\ art.pc = "reload" /\ art.i = i
            /\ Free("mutex_lancadores")
            /\ ~game_over
            /\ ~art.saw_over
            /\ lancadores'[i].direcao = art.dir]_vars

\* The run ended during the reload sleep: the reloader has read the flag
\* after the sleep and left the bay unloaded.
C28_Witness ==
  /\ art.pc = "loop" /\ art.saw_over
  /\ EmptyBays # {} /\ shots_fired = 0

\* C29: game_over goes from false to true only in process_input's quit case
\* or in the orchestrator's store, and the orchestrator goes to its store
\* only from an end-condition check made with naves_chegaram >
\* naves_total / 2 or naves_destruidas + naves_chegaram >= naves_total; a
\* check made with exactly half of the ships landed and ships unhandled
\* does not lead to the store.
C29_NoSpuriousEnd ==
  [][/\ (~game_over /\ game_over') =>
          \/ input.pc = "process" /\ input.key = "x"
          \/ main.pc = "set_over"
     /\ (main'.pc = "set_over" /\ main.pc # "set_over") =>
          /\ main.pc = "check"
          /\ \/ naves_chegaram > naves_total \div 2
             \/ naves_destruidas + naves_chegaram >= naves_total]_vars

\* Every ship of a level of 3 is spawned, exactly 3 / 2 = 1 has landed,
\* none is destroyed, and the orchestrator is past its check with the run
\* going on.
C29_Witness ==
  /\ ~game_over /\ main.pc = "r_naves"
  /\ naves_total = 3 /\ naves_spawned = 3
  /\ naves_chegaram = 1 /\ naves_destruidas = 0

\* C30: a ship or rocket task enters a scoring block only in the step in
\* which it flips a ship's ativa from true to false; the counters
\* naves_destruidas, naves_chegaram, pontuacao, shots_hit, current_streak,
\* best_streak change only in the scoring step of such a task; and that
\* step needs mutex_estado and no other mutex.
C30_ScoreByWinnerUnderEstado ==
  /\ [](/\ \A k \in NaveTasks :
            (ProcessAlive /\ naveT[k].pc = "ground_score"
               /\ Free("mutex_estado")) => ENABLED NaveGroundScore(k)
        /\ \A k \in NaveTasks :
            (ProcessAlive /\ naveT[k].pc = "score"
               /\ Free("mutex_estado")) => ENABLED NaveScore(k)
        /\ \A k \in FogTasks :
            (ProcessAlive /\ fogT[k].pc = "score"
               /\ Free("mutex_estado")) => ENABLED FogScore(k))
  /\ [][/\ \A k \in NaveTasks :
             (naveT'[k].pc \in {"ground_score", "explode"}
                /\ naveT[k].pc \notin {"ground_score", "explode"}) =>
               /\ naves[naveT[k].slot].ativa
               /\ ~naves'[naveT[k].slot].ativa
        /\ \A k \in FogTasks :
             (fogT'[k].pc = "self_mark" /\ fogT[k].pc # "self_mark") =>
               /\ naves[fogT'[k].hit].ativa
               /\ ~naves'[fogT'[k].hit].ativa
        /\ (scoreVars' # scoreVars) =>
             /\ Free("mutex_estado")
             /\ \/ \E k \in NaveTasks :
                     /\ naveT[k].pc \in {"ground_score", "score"}
                     /\ naveT'[k].pc = "exit"
                \/ \E k \in FogTasks :
                     /\ fogT[k].pc = "score"
                     /\ fogT'[k].pc = "exit"]_vars

\* A ship task that detected the collision and flipped its own slot is
\* about to score, while the rocket it hit is about to scan for ships.
C30_Witness ==
  \E j \in NaveTasks : \E k \in FogTasks :
    /\ naveT[j].pc = "score"
    /\ fogT[k].pc = "scan"
    /\ \A o \in Occupancies : destroyEvents[o] = 0

\* ---------------------------------------------------------------------
\* Two shots with a change of direction between them, one ship.  The
\* orchestrator only spawns (threads.c 50-55), and ship and rocket tasks
\* run up to the point where one of them has detected a hit; every
\* behaviour is a behaviour of the program in which the remaining steps
\* have not been scheduled yet.
InitReuse ==
  Start(1, <<TermW, TermH>>, [keys |-> {" ", "q"}, shots |-> 2, faults |-> FALSE])

NextReuse ==
  \/ MainLoop \/ MainCheck \/ MainSpawned
  \/ CriarNaveCheck("main") \/ CriarNaveLock("main") \/ CriarNaveInit("main")
  \/ CriarNaveCount("main") \/ CriarNaveCreate("main")
  \/ InputLoop \/ InputGetch \/ InputProcess \/ InputSleep
  \/ FireLockBays \/ FireLockRockets \/ FireFill \/ FireCount \/ FireCreate
  \/ thread_artilheiro
  \/ \E k \in NaveTasks : ship_alone(k)
  \/ \E k \in FogTasks : rocket_alone(k)

SpecReuse == InitReuse /\ [][NextReuse]_vars

\* The vector the movement table gives for a firing direction.
VectorOf(d) ==
  CASE d = DIR_VERTICAL       -> <<0, -1>>
    [] d = DIR_DIAGONAL_ESQ   -> <<-1, -1>>
    [] d = DIR_DIAGONAL_DIR   -> <<1, -1>>
    [] d = DIR_HORIZONTAL_ESQ -> <<-1, 0>>
    [] d = DIR_HORIZONTAL_DIR -> <<1, 0>>

\* A ship task's tick: alive -> y + 1 and x unchanged; not alive -> exit
\* without a write to the ship table.
ShipTick ==
  \A k \in NaveTasks :
    (naveT[k].pc = "move" /\ naveT'[k] # naveT[k]) =>
      LET s == naveT[k].slot IN
      IF naves[s].ativa
        THEN /\ naves'[s].y = naves[s].y + 1
             /\ naves'[s].x = naves[s].x
        ELSE /\ naveT'[k].pc = "exit"
             /\ naves' = naves

\* A rocket task's tick on a slot that is not alive: exit, no write.
RocketTickDead ==
  \A k \in FogTasks :
    (fogT[k].pc = "move" /\ fogT'[k] # fogT[k]
       /\ ~foguetes[fogT[k].slot].ativa) =>
      /\ fogT'[k].pc = "exit"
      /\ foguetes' = foguetes

\* A rocket task's tick on a slot that is alive: the position changes by
\* the vector of the direction the rocket in that slot was fired in.
RocketTickAlive ==
  \A k \in FogTasks :
    (fogT[k].pc = "move" /\ fogT'[k] # fogT[k]
       /\ foguetes[fogT[k].slot].ativa) =>
      LET s == fogT[k].slot
          v == VectorOf(foguetes[s].direcao) IN
      /\ foguetes'[s].x = foguetes[s].x + v[1]
      /\ foguetes'[s].y = foguetes[s].y + v[2]

\* The position of a slot that is and stays not alive is not written.
DeadStaysPut ==
  /\ \A s \in DOMAIN naves :
       (~naves[s].ativa /\ ~naves'[s].ativa) =>
         (naves'[s].x = naves[s].x /\ naves'[s].y = naves[s].y)
  /\ \A s \in DOMAIN foguetes :
       (~foguetes[s].ativa /\ ~foguetes'[s].ativa) =>
         (foguetes'[s].x = foguetes[s].x /\ foguetes'[s].y = foguetes[s].y)

\* C31: on each tick a ship task that finds its slot alive adds 1 to y and
\* leaves x alone, a rocket task that finds its slot alive adds the vector
\* of its direction, a task that finds its slot not alive exits without
\* moving, and a position is never written while its alive flag is false.
C31_MoveByFixedVector ==
  [][ShipTick /\ RocketTickDead /\ RocketTickAlive /\ DeadStaysPut]_vars

\* The parts of C31 about ships, about slots found not alive and about
\* positions after the alive flag has gone false.
C31_AllButRocketVector ==
  [][ShipTick /\ RocketTickDead /\ DeadStaysPut]_vars

\* ---------------------------------------------------------------------
\* Moving the battery while the terminal is resized: the user changes the
\* terminal's width at any moment (getmaxyx reports it at the next frame)
\* and presses left and right; the orchestrator spawns the level's ship
\* and renders section by section.
MaxTermW == 3

TermResize ==
  /\ ProcessAlive
  /\ \E w \in 0 .. MaxTermW :
       /\ w # term[1]
       /\ term' = <<w, term[2]>>
  /\ UNCHANGED <<mutex, game_over, navesVars, foguetesVars, lancadores,
                 estadoVars, s_expl, cfg, env, main, cn, input, art, naveT,
                 fogT, histVars>>

InitResize ==
  Start(1, <<TermW, TermH>>, [keys |-> {"a", "d"}, shots |-> 0, faults |-> FALSE])

NextResize ==
  \/ TermResize
  \/ MainLoop \/ MainCheck \/ MainSetOver \/ MainSpawned \/ MainSleep
  \/ CriarNaveCheck("main") \/ CriarNaveLock("main") \/ CriarNaveInit("main")
  \/ CriarNaveCount("main") \/ CriarNaveCreate("main")
  \/ render_game
  \/ InputLoop \/ InputGetch \/ InputProcess \/ InputSleep
  \/ \E k \in NaveTasks : ship_alone(k)

SpecResize == InitResize /\ [][NextResize]_vars

\* C32: the battery is always inside 0 .. screen_width - 1, through any
\* interleaving of left and right keys and resizes; the stored metrics
\* are written by render_game's resize section only, with mutex_estado
\* free for it to take and mutex_render held.
C32_BatteryInsideScreen ==
  /\ [](0 <= bateria_x /\ bateria_x <= screen_width - 1)
  /\ [][(screen_width' # screen_width \/ screen_height' # screen_height) =>
          /\ main.pc = "r_resize"
          /\ main'.pc = "r_marks"
          /\ mutex["mutex_render"] = "main"
          /\ Free("mutex_estado")]_vars

\* The frame is about to publish a width at or below the battery's
\* column: the battery was moved right on a wider terminal, which has
\* shrunk since.
C32_Witness ==
  /\ main.pc = "r_resize"
  /\ bateria_x > 0
  /\ (IF term[1] < MIN_TERM_W THEN MIN_TERM_W ELSE term[1]) <= bateria_x
  /\ Free("mutex_estado")

\* ---------------------------------------------------------------------
\* The marker store on its own: render_add_explosion is called with any
\* position at any moment, and the orchestrator goes round its loop,
\* spawning and publishing frames.
MarkY == 2

render_add_explosion ==
  /\ ProcessAlive
  /\ Free("s_expl_mtx")
  /\ \E y \in 0 .. MarkY : s_expl' = expl_add(s_expl, 0, y)
  /\ UNCHANGED <<mutex, game_over, navesVars, foguetesVars, lancadores,
                 estadoVars, envVars, mainVars, input, art, naveT, fogT,
                 histVars>>

InitMarkers ==
  Start(1, <<TermW, TermH>>, [keys |-> {}, shots |-> 0, faults |-> FALSE])

NextMarkers ==
  \/ render_add_explosion
  \/ MainLoop \/ MainCheck \/ MainSpawned \/ MainSleep \/ RenderFrame
  \/ CriarNaveCheck("main") \/ CriarNaveLock("main") \/ CriarNaveInit("main")
  \/ CriarNaveCount("main") \/ CriarNaveCreate("main")

SpecMarkers == InitMarkers /\ [][NextMarkers]_vars

\* The step is the end of a frame: render_game returns to the loop's sleep.
FramePublished ==
  /\ main.pc \in {"r_naves", "r_present"}
  /\ main'.pc = "sleep"

\* Every marker with more than one frame left is kept, in order, with one
\* frame less; the others are gone.
Aged ==
  LET keep == SelectSeq(s_expl, LAMBDA e : e.frames_left > 1) IN
  /\ Len(s_expl') = Len(keep)
  /\ \A i \in 1 .. Len(keep) :
       s_expl'[i] = [keep[i] EXCEPT !.frames_left = @ - 1]

\* One marker with a whole life is appended to a store that has room.
Added ==
  /\ Len(s_expl) < MAX_EXPLOSIONS
  /\ Len(s_expl') = Len(s_expl) + 1
  /\ SubSeq(s_expl', 1, Len(s_expl)) = s_expl
  /\ s_expl'[Len(s_expl')].frames_left = EXPL_FRAMES

\* C33: the marker store never holds more than MAX_EXPLOSIONS markers,
\* each with 1 .. EXPL_FRAMES frames left; every published frame takes
\* exactly one frame from each marker and removes those that reach 0,
\* keeping the order of the rest; any other change of the store is one
\* marker appended with a whole life, so a marker is gone by the
\* EXPL_FRAMES-th frame after it was added.
C33_MarkersBoundedAndAged ==
  /\ [](/\ Len(s_expl) <= MAX_EXPLOSIONS
        /\ \A i \in 1 .. Len(s_expl) :
             s_expl[i].frames_left \in 1 .. EXPL_FRAMES)
  /\ [][/\ FramePublished => Aged
        /\ (~FramePublished /\ s_expl' # s_expl) => Added]_vars

\* The store is full, its first marker is on its last frame and the
\* second is not, and the frame is about to be published.
C33_Witness ==
  /\ main.pc = "r_naves"
  /\ Len(s_expl) = MAX_EXPLOSIONS
  /\ s_expl[1].frames_left = 1
  /\ s_expl[MAX_EXPLOSIONS].frames_left > 1
  /\ ENABLED RenderFrame

\* ---------------------------------------------------------------------
\* Two ships and one shot: the orchestrator spawns the level's two ships
\* and publishes frames, and the input reader is given the processor only
\* once both ships were spawned, so that the shot is fired with both on
\* screen.  Ship and rocket tasks and the reloader run freely.
InitScore ==
  Start(2, <<TermW, TermH>>, [keys |-> {" "}, shots |-> 1, faults |-> FALSE])

input_after_spawn ==
  /\ naves_spawned >= naves_total
  /\ thread_input

NextScore ==
  \/ MainLoop \/ MainCheck \/ MainSetOver \/ MainSpawned \/ MainSleep
  \/ RenderFrame
  \/ CriarNaveCheck("main") \/ CriarNaveLock("main") \/ CriarNaveInit("main")
  \/ CriarNaveCount("main") \/ CriarNaveCreate("main")
  \/ input_after_spawn
  \/ thread_artilheiro
  \/ \E k \in NaveTasks : thread_nave(k)
  \/ \E k \in FogTasks : thread_foguete(k)

SpecScore == InitScore /\ [][NextScore]_vars

\* C34: a ship task that wins the flip at the grounded gate stands at or
\* past the ground line, finds the ship alive and not destroyed and leaves
\* it not alive and not destroyed, changing no counter; its scoring block
\* adds exactly 1 to naves_chegaram, sets current_streak to 0 and leaves
\* pontuacao, naves_destruidas, shots_hit and best_streak as they were.
C34_GroundedCountsEscapeOnly ==
  [][\A k \in NaveTasks :
       /\ (naveT[k].pc = "ground" /\ naveT'[k].pc = "ground_score") =>
            LET s == naveT[k].slot IN
            /\ naveT[k].y >= screen_height - CTRL_H - 1
            /\ naves[s].ativa /\ ~naves[s].destruida
            /\ ~naves'[s].ativa /\ ~naves'[s].destruida
            /\ UNCHANGED <<pontuacao, naves_destruidas, naves_chegaram,
                           shots_hit, current_streak, best_streak>>
       /\ (naveT[k].pc = "ground_score" /\ naveT'[k].pc # "ground_score") =>
            /\ naves_chegaram' = naves_chegaram + 1
            /\ current_streak' = 0
            /\ UNCHANGED <<pontuacao, naves_destruidas, shots_hit,
                           best_streak>>]_vars

\* A ship has won the grounded gate and is about to count its escape
\* after the other ship was destroyed: the streak to reset is not 0.
C34_Witness ==
  \E k \in NaveTasks :
    /\ naveT[k].pc = "ground_score"
    /\ current_streak > 0
    /\ naves_destruidas > 0
    /\ Free("mutex_estado")

\* C35: the active-counts stay within their capacity, 0 .. MAX_NAVES for
\* ships and 0 .. MAX_FOGUETES for rockets, in every state.
C35_ActiveCountsWithinCapacity ==
  /\ 0 <= num_naves_ativas /\ num_naves_ativas <= MAX_NAVES
  /\ 0 <= num_foguetes_ativos /\ num_foguetes_ativos <= MAX_FOGUETES

\* C36: whenever mutex_estado is free, the score is 10 points for every
\* destroyed ship and every destroyed ship is one counted hit.
C36_ScoreMatchesKills ==
  Free("mutex_estado") =>
    /\ pontuacao = 10 * naves_destruidas
    /\ shots_hit = naves_destruidas

\* Both ships of the level were destroyed and scored.
C36_Witness ==
  /\ naves_destruidas = 2
  /\ pontuacao = 20
  /\ Free("mutex_estado")

\* C38: whenever mutex_estado is free, 0 <= current_streak <= best_streak
\* and best_streak <= naves_destruidas, and no step lowers best_streak.
C38_StreakBookkeeping ==
  /\ [](Free("mutex_estado") =>
          /\ 0 <= current_streak
          /\ current_streak <= best_streak
          /\ best_streak <= naves_destruidas)
  /\ [][best_streak' >= best_streak]_vars

\* A ship was destroyed and the other has landed since: the streak is
\* back at 0 below the best streak of 1.
C38_Witness ==
  /\ best_streak = 1
  /\ current_streak = 0
  /\ naves_chegaram = 1
  /\ naves_destruidas = 1
  /\ Free("mutex_estado")

\* C37: hits never exceed shots: shots_hit <= shots_fired in every state,
\* each fired rocket being credited with at most one destroyed ship.
C37_HitsWithinShots == shots_hit <= shots_fired

\* C39: mutex_estado is the innermost lock: a task that holds it has no
\* next step that takes another mutex, free or not, so every section of
\* mutex_estado ends without waiting for a lock.
C39_EstadoInnermost ==
  \A t \in Holders : \A b \in Mutexes \ {"mutex_estado"} :
    ~(mutex["mutex_estado"] = t /\ Wants(t) = b)

\* The fire action holds mutex_lancadores and mutex_foguetes and is about
\* to take mutex_estado inside them, while the renderer, inside
\* mutex_render, is about to take it for the HUD.
C39_Witness ==
  /\ input.pc = "td_count"
  /\ mutex["mutex_lancadores"] = "input"
  /\ mutex["mutex_foguetes"] = "input"
  /\ main.pc = "r_hud"
  /\ mutex["mutex_render"] = "main"
  /\ Free("mutex_estado")

\* ---------------------------------------------------------------------
\* The orchestrator and the ships under fair scheduling, with no user at
\* the keyboard.  The spawn interval is finite (threads.c 58): the check
\* that finds a spawn due cannot be denied for ever.
SpawnDue == MainCheck /\ main'.pc = "criar_nave"

FairTermination == FairEscape /\ SF_vars(SpawnDue)

SpecTermination == InitEscape /\ [][NextEscape]_vars /\ FairTermination

\* C40: without a quit and under fair scheduling every run ends: the
\* orchestrator eventually sets game_over.
C40_RunTerminates == <>game_over

====
